---- MODULE Spec2Model ----
(***************************************************************************)
(* Verification model of the compilation core of scryer-prolog:            *)
(*   - the heap partial-string iterator and prefix comparator              *)
(*     (src/src/machine/partial_string.rs),                                *)
(*   - the arithmetic expression compiler (src/src/arithmetic.rs).         *)
(* Heap indices are 0-based as in the source.  Characters are ASCII code  *)
(* points, so that char::len_utf8 is 1 and byte offsets are char offsets.  *)
(***************************************************************************)
EXTENDS Integers, Sequences, FiniteSets, TLC

VARIABLES heap, op, desc1, desc2, i1, i2, r1, r2, pc, result, items

pvars == <<heap, op, desc1, desc2, i1, i2, r1, r2, pc, result, items>>

\* The state of one run of ArithmeticEvaluator::eval.
VARIABLES src, bindings, state_stack, interm, interm_c, code, apc, aresult

avars == <<src, bindings, state_stack, interm, interm_c, code, apc, aresult>>

\* The numbers a Number function is applied to, its loop state and results.
VARIABLES nop, npc, nin, nout, pin, pow

nvars == <<nop, npc, nin, nout, pin, pow>>

\* The clause compile_fact or compile_rule compiles, the ClauseItems left,
\* the state of compile_seq and the result.
VARIABLES clause, cpc, citems, cst, cres

cvars == <<clause, cpc, citems, cst, cres>>

\* The predicate compile_predicate compiles, the ClauseSpans left, the code so
\* far and the result.
VARIABLES pred, dpc, spans, dcode, dres

dvars == <<pred, dpc, spans, dcode, dres>>

\* The lines QueryResult::from is given and its result.
VARIABLES lines, qpc, qres

qvars == <<lines, qpc, qres>>

\* The fields of MachineState that push_attr_var_binding touches (p and
\* attr_var_init), and what was asked of it since the last reset: the calls
\* made and the number of them that redirected p.
VARIABLES machine, mpc, calls, redirects

mvars == <<machine, mpc, calls, redirects>>

vars == <<pvars, avars, nvars, cvars, dvars, qvars, mvars>>

\* What each part of the program leaves alone: the state of the others.
beside_pstr == <<avars, nvars, cvars, dvars, qvars, mvars>>

beside_arith == <<pvars, nvars, cvars, dvars, qvars, mvars>>

beside_num == <<pvars, avars, cvars, dvars, qvars, mvars>>

beside_clause == <<pvars, avars, nvars, dvars, qvars, mvars>>

beside_pred == <<pvars, avars, nvars, cvars, qvars, mvars>>

beside_results == <<pvars, avars, nvars, cvars, dvars, mvars>>

beside_machine == <<pvars, avars, nvars, cvars, dvars, qvars>>

\* No attributed variable is being bound.
MIdle == machine = <<>> /\ mpc = "idle" /\ calls = <<>> /\ redirects = 0

\* No clause is being compiled.
CIdle ==
  /\ clause = <<>> /\ cpc = "idle" /\ citems = <<>> /\ cst = <<>> /\ cres = <<>>

\* No predicate is being compiled.
DIdle ==
  /\ pred = <<>> /\ dpc = "idle" /\ spans = <<>> /\ dcode = <<>> /\ dres = <<>>

\* No query result is being built.
QIdle == lines = <<>> /\ qpc = "idle" /\ qres = <<>>

\* No Number function is being applied.
NIdle ==
  /\ nop = "idle" /\ npc = "idle"
  /\ nin = <<>> /\ nout = <<>> /\ pin = <<>> /\ pow = <<>>

\* No arithmetic expression is being compiled.
AIdle ==
  /\ src = <<>> /\ bindings = <<>> /\ state_stack = <<>> /\ interm = <<>>
  /\ interm_c = 0 /\ code = <<>> /\ apc = "idle" /\ aresult = <<>>

\* No partial string is being iterated.
PIdle ==
  /\ heap = <<>> /\ op = "idle" /\ desc1 = <<>> /\ desc2 = <<>> /\ i1 = <<>>
  /\ i2 = <<>> /\ r1 = <<>> /\ r2 = <<>> /\ pc = "idle" /\ result = <<>>
  /\ items = <<>>

(***************************************************************************)
(* Tagged heap cells and the atom table.                                   *)
(***************************************************************************)

\* The interned strings; an atom is its index.  1 "[]", 2 ".", 3 "a",
\* 4 "b", 5 "ab", 6 "abc ", 7 "def", 8 "c ", 9 "abc", 10 "abcd", 11 "aaa".
AtomTable ==
  << <<91, 93>>, <<46>>, <<97>>, <<98>>, <<97, 98>>, <<97, 98, 99, 32>>,
     <<100, 101, 102>>, <<99, 32>>, <<97, 98, 99>>, <<97, 98, 99, 100>>,
     <<97, 97, 97>> >>

AtomStr(a) == AtomTable[a]

Cell(tag, v) == [tag |-> tag, v |-> v, ar |-> 0]

AtomCell(name, arity) == [tag |-> "Atom", v |-> name, ar |-> arity]

empty_list_as_cell == AtomCell(1, 0)

CellEq(c, d) == c.tag = d.tag /\ c.v = d.v /\ c.ar = d.ar

IsNil(c) == CellEq(c, empty_list_as_cell)

InHeap(H, i) == i \in DOMAIN H

\* HeapCellValue::as_char: a Char cell, or an arity-0 atom whose name is a
\* single character.
as_char(c) ==
  CASE c.tag = "Char" -> <<c.v>>
    [] c.tag = "Atom" /\ c.ar = 0 /\ Len(AtomStr(c.v)) = 1 -> <<AtomStr(c.v)[1]>>
    [] OTHER -> <<>>

(***************************************************************************)
(* Input heaps.  A term is described by its segments, how it ends and how  *)
(* it is entered, and is laid out cell by cell the way the unit test of    *)
(* partial_string.rs builds its heaps (put_partial_string, push).          *)
(*   segment kinds: "C" cons cell (Lis) holding a Char, "A" cons cell      *)
(*     holding a one-character atom, "S" a '.'/2 structure (Str),          *)
(*     "P" a PStr segment followed by its tail cell;                       *)
(*   endings: "Nil" [], "Var" unbound variable, "Fix" a non-list tail,     *)
(*     "VarNil" variable bound to [], "CStr" a complete string,            *)
(*     "CStrOff" offset into a complete string, "Cyc" tail refers back to  *)
(*     segment k, "CycOff" tail is an offset n into PStr segment k,        *)
(*     "VarCyc" tail is a variable bound to the entry cell;                *)
(*   root: "cell" the start index holds a reference to the first segment,  *)
(*     "direct" the start index is the first cell of the term itself,      *)
(*     "offset" the start index is the PStrOffset cell of a "CycOff" end,  *)
(*     "tail" the start index is the tail cell that closes the cycle.      *)
(***************************************************************************)

Seg(k, x) == [k |-> k, x |-> x]

End(e, k, n, a) == [e |-> e, k |-> k, n |-> n, a |-> a]

Term(segs, end, root) == [segs |-> segs, end |-> end, root |-> root]

SegSize(s) == IF s.k = "S" THEN 3 ELSE 2

RECURSIVE SegsSize(_)
SegsSize(segs) ==
  IF segs = <<>> THEN 0 ELSE SegSize(Head(segs)) + SegsSize(Tail(segs))

RootSize(d) == IF d.root = "cell" THEN 1 ELSE 0

SegBase(d, b0, i) == b0 + RootSize(d) + SegsSize(SubSeq(d.segs, 1, i - 1))

EndBase(d, b0) == b0 + RootSize(d) + SegsSize(d.segs)

RefTo(s, base) ==
  CASE s.k \in {"C", "A"} -> Cell("Lis", base)
    [] s.k = "P" -> Cell("PStrLoc", base)
    [] s.k = "S" -> Cell("Str", base)

SegHead(s) ==
  CASE s.k = "C" -> <<Cell("Char", s.x)>>
    [] s.k = "A" -> <<AtomCell(s.x, 0)>>
    [] s.k = "P" -> <<Cell("PStr", s.x)>>
    [] s.k = "S" -> <<AtomCell(2, 2), Cell("Char", s.x)>>

EndCell(d, b0, self) ==
  CASE d.end.e = "Nil" -> empty_list_as_cell
    [] d.end.e = "Var" -> Cell("Var", self)
    [] d.end.e = "Fix" -> Cell("Fixnum", 0)
    [] d.end.e = "CStr" -> Cell("CStr", d.end.a)
    [] d.end.e = "VarNil" -> Cell("Var", EndBase(d, b0))
    [] d.end.e = "CStrOff" -> Cell("PStrLoc", EndBase(d, b0))
    [] d.end.e = "Cyc" -> RefTo(d.segs[d.end.k], SegBase(d, b0, d.end.k))
    [] d.end.e = "CycOff" -> Cell("PStrLoc", EndBase(d, b0))
    [] d.end.e = "VarCyc" -> Cell("Var", b0)

ExtraCells(d, b0) ==
  CASE d.end.e = "VarNil" -> <<empty_list_as_cell>>
    [] d.end.e = "CStrOff" ->
         <<Cell("PStrOffset", EndBase(d, b0) + 2), Cell("Fixnum", d.end.n),
           Cell("CStr", d.end.a)>>
    [] d.end.e = "CycOff" ->
         <<Cell("PStrOffset", SegBase(d, b0, d.end.k)), Cell("Fixnum", d.end.n)>>
    [] OTHER -> <<>>

RECURSIVE SegCells(_, _, _)
SegCells(d, b0, i) ==
  IF i > Len(d.segs) THEN <<>>
  ELSE LET s == d.segs[i]
           tail == IF i < Len(d.segs)
                   THEN RefTo(d.segs[i + 1], SegBase(d, b0, i + 1))
                   ELSE EndCell(d, b0, SegBase(d, b0, i) + SegSize(s) - 1)
       IN SegHead(s) \o <<tail>> \o SegCells(d, b0, i + 1)

TermCells(d, b0) ==
  (IF d.root = "cell" THEN <<RefTo(d.segs[1], b0 + 1)>> ELSE <<>>)
  \o (IF d.segs = <<>> THEN <<EndCell(d, b0, b0)>> ELSE SegCells(d, b0, 1))
  \o ExtraCells(d, b0)

\* The heap holding term d1 at index 0 and, when two terms are compared,
\* term d2 right after it; the last `cut` cells are missing.
HeapOf(d1, d2, two, cut) ==
  LET cs == TermCells(d1, 0)
            \o (IF two THEN TermCells(d2, Len(TermCells(d1, 0))) ELSE <<>>)
  IN [i \in 0 .. (Len(cs) - 1 - cut) |-> cs[i + 1]]

RefTags == {"Var", "AttrVar", "Lis", "Str", "PStrLoc", "PStrOffset"}

\* Every reference tag points to an in-range index.
RefsInRange(H) == \A i \in DOMAIN H : H[i].tag \in RefTags => H[i].v \in DOMAIN H

(***************************************************************************)
(* Collaborators of the iterator that live outside partial_string.rs.      *)
(***************************************************************************)

IsVar(c) == c.tag \in {"Var", "AttrVar"}

\* heap_bound_store(heap, heap_bound_deref(heap, c)): the cell a chain of
\* bound variables ends in.
RECURSIVE Deref(_, _)
Deref(H, c) ==
  IF IsVar(c)
  THEN LET n == H[c.v] IN IF CellEq(n, c) THEN c ELSE Deref(H, n)
  ELSE c

\* HeapCellValue::is_string_terminator
RECURSIVE is_string_terminator(_, _)
is_string_terminator(H, c) ==
  CASE c.tag = "Atom" -> c.v = 1 /\ c.ar = 0
    [] c.tag = "CStr" -> TRUE
    [] c.tag = "PStrLoc" -> is_string_terminator(H, H[c.v])
    [] IsVar(c) ->
         LET d == Deref(H, H[c.v])
         IN IF IsVar(d) THEN FALSE ELSE is_string_terminator(H, d)
    [] c.tag = "PStrOffset" -> H[c.v].tag = "CStr"
    [] OTHER -> FALSE

\* BrentAlgState::new
BrentNew(h) == [hare |-> h, tortoise |-> h, power |-> 1, lam |-> 0]

\* BrentAlgState::step: the state after the hare moved to `hare`, and whether
\* the hare met the tortoise (Some(CycleSearchResult::NotList)).
BrentStep(b, hare) ==
  LET lam == b.lam + 1
  IN IF b.tortoise = hare
     THEN [st |-> [b EXCEPT !.hare = hare, !.lam = lam], cyc |-> TRUE]
     ELSE IF lam = b.power
          THEN [st |-> [hare |-> hare, tortoise |-> hare,
                        power |-> 2 * b.power, lam |-> 0],
                cyc |-> FALSE]
          ELSE [st |-> [b EXCEPT !.hare = hare, !.lam = lam], cyc |-> FALSE]

(***************************************************************************)
(* HeapPStrIter.                                                           *)
(***************************************************************************)

\* PStrIteratee::Char(focus, c) and PStrIteratee::PStrSegment(focus, atom, n)
CharItem(f, c) == [kind |-> "Char", focus |-> f, a |-> c, n |-> 0]

SegItem(f, a, n) == [kind |-> "PStrSegment", focus |-> f, a |-> a, n |-> n]

NoItem == [kind |-> "None", focus |-> 0, a |-> 0, n |-> 0]

\* Option<PStrIterStep>; st = "panic" is an out-of-range read or a failed unwrap.
SomeStep(item, nh) == [st |-> "some", it |-> item, nh |-> nh]

NoStep == [st |-> "none", it |-> NoItem, nh |-> 0]

PanicStep == [st |-> "panic", it |-> NoItem, nh |-> 0]

\* HeapPStrIter::new
IterNew(H, h) ==
  [focus |-> H[h], orig_focus |-> h, brent_st |-> BrentNew(h), stepper |-> "pre"]

\* HeapPStrIter::at_string_terminator
at_string_terminator(H, it) == is_string_terminator(H, it.focus)

\* HeapPStrIter::step
RECURSIVE step(_, _, _)
step(H, focus, curr_hare) ==
  IF ~InHeap(H, curr_hare) THEN PanicStep
  ELSE
  LET c == H[curr_hare] IN
  CASE c.tag = "CStr" ->
         IF IsNil(focus) THEN NoStep
         ELSE SomeStep(SegItem(curr_hare, c.v, 0), curr_hare)
    [] c.tag = "PStrLoc" -> step(H, focus, c.v)
    [] c.tag = "PStr" -> SomeStep(SegItem(curr_hare, c.v, 0), curr_hare + 1)
    [] c.tag = "PStrOffset" ->
         IF IsNil(focus) THEN NoStep
         ELSE IF ~InHeap(H, c.v) \/ ~InHeap(H, curr_hare + 1) THEN PanicStep
         ELSE LET pstr_atom == H[c.v].v
                  n == H[curr_hare + 1].v
              IN IF H[c.v].tag = "CStr"
                 THEN SomeStep(SegItem(curr_hare, pstr_atom, n), c.v)
                 ELSE SomeStep(SegItem(curr_hare, pstr_atom, n), c.v + 1)
    [] c.tag = "Lis" ->
         IF ~InHeap(H, c.v) THEN PanicStep
         ELSE IF as_char(H[c.v]) # <<>>
              THEN SomeStep(CharItem(curr_hare, as_char(H[c.v])[1]), c.v + 1)
              ELSE NoStep
    [] c.tag = "Str" ->
         IF ~InHeap(H, c.v) THEN PanicStep
         ELSE IF H[c.v].v = 2 /\ H[c.v].ar = 2
              THEN IF ~InHeap(H, c.v + 1) THEN PanicStep
                   ELSE IF as_char(H[c.v + 1]) # <<>>
                        THEN SomeStep(CharItem(curr_hare, as_char(H[c.v + 1])[1]),
                                      c.v + 2)
                        ELSE NoStep
              ELSE NoStep
    [] c.tag = "Atom" -> NoStep
    [] IsVar(c) -> IF c.v = curr_hare THEN NoStep ELSE step(H, focus, c.v)
    [] OTHER -> NoStep

\* The first loop of walk_hare_to_cycle_end: n unwrapped steps of the hare.
\* -1 stands for a failed unwrap or an out-of-range read.
RECURSIVE WalkLam(_, _, _, _)
WalkLam(H, focus, hare, n) ==
  IF n = 0 \/ hare < 0 THEN hare
  ELSE LET s == step(H, focus, hare)
       IN IF s.st = "some" THEN WalkLam(H, focus, s.nh, n - 1) ELSE -1

\* The second loop of walk_hare_to_cycle_end: tortoise and hare step together
\* until they meet; the result is the meeting index.
RECURSIVE WalkMeet(_, _, _, _)
WalkMeet(H, focus, hare, tortoise) ==
  IF hare < 0 THEN -1
  ELSE IF hare = tortoise THEN tortoise
  ELSE LET st == step(H, focus, tortoise)
           sh == step(H, focus, hare)
       IN IF st.st = "some" /\ sh.st = "some"
          THEN WalkMeet(H, focus, sh.nh, st.nh)
          ELSE -1

\* walk_hare_to_cycle_end leaving the hare where the walk met the tortoise
\* instead of putting it back where the cycle was discovered.
walk_hare_to_cycle_end_hare_at_meet(H, it) ==
  LET orig_hare == it.brent_st.hare
      h1 == WalkLam(H, it.focus, it.orig_focus, it.brent_st.lam)
      meet == WalkMeet(H, it.focus, h1, it.orig_focus)
  IN IF meet < 0 \/ ~InHeap(H, orig_hare)
     THEN [ok |-> FALSE, iter |-> it]
     ELSE [ok |-> TRUE,
           iter |-> [it EXCEPT !.focus = H[orig_hare],
                               !.brent_st.hare = meet,
                               !.brent_st.tortoise = meet]]

\* HeapPStrIter::walk_hare_to_cycle_end; ok = FALSE when it panics.
walk_hare_to_cycle_end(H, it) ==
  LET orig_hare == it.brent_st.hare
      h1 == WalkLam(H, it.focus, it.orig_focus, it.brent_st.lam)
      meet == WalkMeet(H, it.focus, h1, it.orig_focus)
  IN IF meet < 0 \/ ~InHeap(H, orig_hare)
     THEN [ok |-> FALSE, iter |-> it]
     ELSE [ok |-> TRUE,
           iter |-> [it EXCEPT !.focus = H[orig_hare],
                               !.brent_st.hare = orig_hare,
                               !.brent_st.tortoise = meet]]

\* The outcome of one call of next(): the iterator afterwards and the
\* Option<PStrIteratee> returned ("panic" when the call does not return).
Outcome(it, st, item) == [iter |-> it, st |-> st, out |-> item]

\* pre_cycle_discovery_stepper leaving the focus on the cell of the item
\* just yielded instead of moving it to the cell the hare went to.
pre_cycle_discovery_stepper_focus_behind(H, it) ==
  LET s == step(H, it.focus, it.brent_st.hare) IN
  IF s.st # "some" THEN Outcome(it, s.st, NoItem)
  ELSE
  LET f1 == H[s.it.focus] IN
  IF is_string_terminator(H, f1)
  THEN Outcome([it EXCEPT !.focus = empty_list_as_cell,
                          !.brent_st.hare = s.it.focus], "some", s.it)
  ELSE
  LET b == BrentStep(it.brent_st, s.nh)
      it1 == [it EXCEPT !.focus = f1, !.brent_st = b.st]
  IN IF b.cyc
     THEN LET w == walk_hare_to_cycle_end(H, it1)
          IN IF w.ok
             THEN Outcome([w.iter EXCEPT !.stepper = "post"], "some", s.it)
             ELSE Outcome(it1, "panic", NoItem)
     ELSE IF InHeap(H, s.nh)
          THEN Outcome(it1, "some", s.it)
          ELSE Outcome(it1, "panic", NoItem)

\* HeapPStrIter::pre_cycle_discovery_stepper
pre_cycle_discovery_stepper(H, it) ==
  LET s == step(H, it.focus, it.brent_st.hare) IN
  IF s.st # "some" THEN Outcome(it, s.st, NoItem)
  ELSE
  LET f1 == H[s.it.focus] IN
  IF is_string_terminator(H, f1)
  THEN Outcome([it EXCEPT !.focus = empty_list_as_cell,
                          !.brent_st.hare = s.it.focus], "some", s.it)
  ELSE
  LET b == BrentStep(it.brent_st, s.nh)
      it1 == [it EXCEPT !.focus = f1, !.brent_st = b.st]
  IN IF b.cyc
     THEN LET w == walk_hare_to_cycle_end(H, it1)
          IN IF w.ok
             THEN Outcome([w.iter EXCEPT !.stepper = "post"], "some", s.it)
             ELSE Outcome(it1, "panic", NoItem)
     ELSE IF InHeap(H, s.nh)
          THEN Outcome([it1 EXCEPT !.focus = H[s.nh]], "some", s.it)
          ELSE Outcome(it1, "panic", NoItem)

\* post_cycle_discovery_stepper without the test that the hare is back at
\* the tortoise.
post_cycle_discovery_stepper_no_stop(H, it) ==
  LET s == step(H, it.focus, it.brent_st.hare) IN
  IF s.st # "some" THEN Outcome(it, s.st, NoItem)
  ELSE IF InHeap(H, s.nh)
       THEN Outcome([it EXCEPT !.focus = H[s.nh], !.brent_st.hare = s.nh],
                    "some", s.it)
       ELSE Outcome(it, "panic", NoItem)

\* HeapPStrIter::post_cycle_discovery_stepper
post_cycle_discovery_stepper(H, it) ==
  IF it.brent_st.hare = it.brent_st.tortoise THEN Outcome(it, "none", NoItem)
  ELSE
  LET s == step(H, it.focus, it.brent_st.hare) IN
  IF s.st # "some" THEN Outcome(it, s.st, NoItem)
  ELSE IF InHeap(H, s.nh)
       THEN Outcome([it EXCEPT !.focus = H[s.nh], !.brent_st.hare = s.nh],
                    "some", s.it)
       ELSE Outcome(it, "panic", NoItem)

\* HeapPStrIter::is_continuable
RECURSIVE is_continuable_from(_, _)
is_continuable_from(H, focus) ==
  CASE focus.tag \in {"CStr", "PStrLoc"} -> TRUE
    [] focus.tag = "Atom" -> focus.v = 2 /\ focus.ar = 2
    [] focus.tag = "Lis" -> H[focus.v].tag = "Char"
                            \/ (H[focus.v].tag = "Atom" /\ H[focus.v].ar = 0
                                /\ Len(AtomStr(H[focus.v].v)) = 1)
    [] IsVar(focus) -> IF CellEq(focus, H[focus.v]) THEN FALSE
                       ELSE is_continuable_from(H, H[focus.v])
    [] OTHER -> FALSE

is_continuable(H, it) == is_continuable_from(H, it.focus)

(***************************************************************************)
(* compare_pstr_prefixes.                                                  *)
(***************************************************************************)

\* PStrCmpResult
Ordered(o) == [kind |-> "Ordered", ord |-> o, it |-> NoItem]

FirstIterContinuable(item) == [kind |-> "FirstIterContinuable", ord |-> "", it |-> item]

SecondIterContinuable(item) == [kind |-> "SecondIterContinuable", ord |-> "", it |-> item]

Unordered == [kind |-> "Unordered", ord |-> "", it |-> NoItem]

NoResult == [kind |-> "None", ord |-> "", it |-> NoItem]

\* char::cmp
CharCmp(c1, c2) == IF c1 < c2 THEN "Less" ELSE IF c1 = c2 THEN "Equal" ELSE "Greater"

\* str::cmp, lexicographic
RECURSIVE StrCmp(_, _)
StrCmp(s, t) ==
  IF s = <<>> THEN (IF t = <<>> THEN "Equal" ELSE "Less")
  ELSE IF t = <<>> THEN "Greater"
  ELSE IF Head(s) # Head(t) THEN CharCmp(Head(s), Head(t))
  ELSE StrCmp(Tail(s), Tail(t))

\* str::starts_with
StartsWith(s, t) == Len(t) <= Len(s) /\ SubSeq(s, 1, Len(t)) = t

\* PartialString::as_str_from; the slice panics when n is past the end.
StrFromOk(a, n) == n <= Len(AtomStr(a))

as_str_from(a, n) == SubSeq(AtomStr(a), n + 1, Len(AtomStr(a)))

\* consolidate_step: the iterator afterwards, and whether no cycle was found;
\* ok = FALSE when heap[step.next_hare] is out of range.
consolidate_step(H, it, s) ==
  IF ~InHeap(H, s.nh) THEN [ok |-> FALSE, iter |-> it, cont |-> FALSE]
  ELSE LET f == H[s.nh]
           b == BrentStep(it.brent_st, s.nh)
       IN [ok |-> TRUE,
           iter |-> [it EXCEPT
                       !.focus = IF is_string_terminator(H, f)
                                 THEN empty_list_as_cell ELSE f,
                       !.brent_st = b.st],
           cont |-> ~b.cyc]

\* The state of the comparison loop: both iterators, r1, r2 and where control
\* goes next ("loop" = continue, "after" = break, "panic").
CmpState(a1, a2, s1, s2, p) == [i1 |-> a1, i2 |-> a2, r1 |-> s1, r2 |-> s2, pc |-> p]

\* Both sides consumed their item: consolidate both, re-step each side that
\* found no cycle, continue only if neither found one.
AdvanceBoth(H, a1, a2, s1, s2) ==
  LET c1 == consolidate_step(H, a1, s1)
      c2 == consolidate_step(H, a2, s2)
  IN IF ~c1.ok \/ ~c2.ok THEN CmpState(a1, a2, s1, s2, "panic")
     ELSE LET n1 == IF c1.cont
                    THEN step(H, c1.iter.focus, c1.iter.brent_st.hare) ELSE s1
              n2 == IF c2.cont
                    THEN step(H, c2.iter.focus, c2.iter.brent_st.hare) ELSE s2
          IN CmpState(c1.iter, c2.iter, n1, n2,
                      IF n1.st = "panic" \/ n2.st = "panic" THEN "panic"
                      ELSE IF c1.cont /\ c2.cont THEN "loop" ELSE "after")

\* Only the first side consumed its item; the second keeps s2 (its iteratee
\* already moved to the new offset).
AdvanceFirst(H, a1, a2, s1, s2) ==
  LET c1 == consolidate_step(H, a1, s1)
  IN IF ~c1.ok THEN CmpState(a1, a2, s1, s2, "panic")
     ELSE IF c1.cont
          THEN LET n1 == step(H, c1.iter.focus, s1.nh)
               IN CmpState(c1.iter, a2, n1, s2,
                           IF n1.st = "panic" THEN "panic" ELSE "loop")
          ELSE CmpState(c1.iter, a2, s1, s2, "after")

\* Only the second side consumed its item.
AdvanceSecond(H, a1, a2, s1, s2) ==
  LET c2 == consolidate_step(H, a2, s2)
  IN IF ~c2.ok THEN CmpState(a1, a2, s1, s2, "panic")
     ELSE IF c2.cont
          THEN LET n2 == step(H, c2.iter.focus, s2.nh)
               IN CmpState(a1, c2.iter, s1, n2,
                           IF n2.st = "panic" THEN "panic" ELSE "loop")
          ELSE CmpState(a1, c2.iter, s1, s2, "after")

WithItem(s, item) == [s EXCEPT !.it = item]

\* The order returned when a PStrSegment of i1 meets a Char of i2 and their
\* first characters c1 (of i1) and c2 (of i2) differ.
SegCharOrder(c1, c2) == CharCmp(c2, c1)

\* The order returned when a Char of i1 meets a PStrSegment of i2.
CharSegOrder(c1, c2) == CharCmp(c1, c2)

\* The tail of compare_pstr_prefixes without the test for equal foci.
CompareTail_no_focus_test(H, a1, a2, s1, s2) ==
  IF IsNil(a1.focus) THEN Ordered("Less")
  ELSE IF IsNil(a2.focus) THEN Ordered("Greater")
  ELSE IF is_continuable(H, a1)
       THEN IF is_continuable(H, a2) THEN Ordered("Equal")
            ELSE IF s1.st = "some" THEN FirstIterContinuable(s1.it)
                 ELSE [NoResult EXCEPT !.kind = "panic"]
  ELSE IF is_continuable(H, a2)
       THEN IF s2.st = "some" THEN SecondIterContinuable(s2.it)
            ELSE [NoResult EXCEPT !.kind = "panic"]
  ELSE Unordered

\* The tail of compare_pstr_prefixes unwrapping r2 where it unwraps r1.
CompareTail_unwrap_r2(H, a1, a2, s1, s2) ==
  IF CellEq(a1.focus, a2.focus) THEN Ordered("Equal")
  ELSE IF IsNil(a1.focus) THEN Ordered("Less")
  ELSE IF IsNil(a2.focus) THEN Ordered("Greater")
  ELSE IF is_continuable(H, a1)
       THEN IF is_continuable(H, a2) THEN Ordered("Equal")
            ELSE IF s2.st = "some" THEN FirstIterContinuable(s2.it)
                 ELSE [NoResult EXCEPT !.kind = "panic"]
  ELSE IF is_continuable(H, a2)
       THEN IF s2.st = "some" THEN SecondIterContinuable(s2.it)
            ELSE [NoResult EXCEPT !.kind = "panic"]
  ELSE Unordered

\* The tail of compare_pstr_prefixes answering Greater for an exhausted i1
\* and Less for an exhausted i2.
CompareTail_exhausted_swapped(H, a1, a2, s1, s2) ==
  IF CellEq(a1.focus, a2.focus) THEN Ordered("Equal")
  ELSE IF IsNil(a1.focus) THEN Ordered("Greater")
  ELSE IF IsNil(a2.focus) THEN Ordered("Less")
  ELSE IF is_continuable(H, a1)
       THEN IF is_continuable(H, a2) THEN Ordered("Equal")
            ELSE IF s1.st = "some" THEN FirstIterContinuable(s1.it)
                 ELSE [NoResult EXCEPT !.kind = "panic"]
  ELSE IF is_continuable(H, a2)
       THEN IF s2.st = "some" THEN SecondIterContinuable(s2.it)
            ELSE [NoResult EXCEPT !.kind = "panic"]
  ELSE Unordered

\* The tail of compare_pstr_prefixes, after the loop.
CompareTail(H, a1, a2, s1, s2) ==
  IF CellEq(a1.focus, a2.focus) THEN Ordered("Equal")
  ELSE IF IsNil(a1.focus) THEN Ordered("Less")
  ELSE IF IsNil(a2.focus) THEN Ordered("Greater")
  ELSE IF is_continuable(H, a1)
       THEN IF is_continuable(H, a2) THEN Ordered("Equal")
            ELSE IF s1.st = "some" THEN FirstIterContinuable(s1.it)
                 ELSE [NoResult EXCEPT !.kind = "panic"]
  ELSE IF is_continuable(H, a2)
       THEN IF s2.st = "some" THEN SecondIterContinuable(s2.it)
            ELSE [NoResult EXCEPT !.kind = "panic"]
  ELSE Unordered

(***************************************************************************)
(* The inputs: families of terms, and the heaps of pstr_iter_tests.        *)
(***************************************************************************)

\* Most segments of a term handed to next().
MaxSegs == 3

\* Most segments of the two terms handed to compare_pstr_prefixes, together.
MaxTotalSegs == 3

IterKinds == {Seg("C", 97), Seg("A", 4), Seg("S", 97), Seg("P", 5)}

CmpKinds == {Seg("C", 97), Seg("P", 5), Seg("P", 11)}

SeqsOver(K, n) == UNION {[1 .. m -> K] : m \in 0 .. n}

PlainEnd(e) == End(e, 0, 0, 0)

EndsFor(segs, full) ==
  IF segs = <<>>
  THEN {PlainEnd("Nil"), PlainEnd("Var")}
       \cup (IF full THEN {PlainEnd("Fix"), End("CStr", 0, 0, 9)} ELSE {})
  ELSE {PlainEnd("Nil"), PlainEnd("Var")}
       \cup {End("Cyc", k, 0, 0) : k \in 1 .. Len(segs)}
       \cup (IF full
             THEN {PlainEnd("Fix"), PlainEnd("VarNil"), PlainEnd("VarCyc")}
                  \cup {End("CStrOff", 0, n, 5) : n \in 0 .. 1}
                  \cup UNION {{End("CycOff", k, n, 0) :
                                 n \in 0 .. (Len(AtomStr(segs[k].x)) - 1)} :
                              k \in {j \in 1 .. Len(segs) : segs[j].k = "P"}}
             ELSE {})

RootsFor(segs, end, full) ==
  IF segs = <<>> THEN {"direct"}
  ELSE IF end.e = "VarCyc" THEN {"cell"}
  ELSE (IF segs[1].k = "P" THEN {"cell", "direct"} ELSE {"cell"})
       \cup (IF end.e = "CycOff" THEN {"offset"} ELSE {})
       \cup (IF full /\ end.e = "Cyc" /\ end.k = 1 THEN {"tail"} ELSE {})

TermsOver(K, n, full) ==
  UNION {UNION {{Term(s, e, r) : r \in RootsFor(s, e, full)} : e \in EndsFor(s, full)} :
         s \in SeqsOver(K, n)}

NilTerm == Term(<<>>, PlainEnd("Nil"), "direct")

\* The index a term laid out at b0 is entered at.
StartOf(d, b0) ==
  CASE d.root = "offset" -> EndBase(d, b0)
    [] d.root = "tail" -> EndBase(d, b0) - 1
    [] OTHER -> b0

Input(d1, d2, o, cut) == [d1 |-> d1, d2 |-> d2, op |-> o, cut |-> cut]

\* The terms of pstr_iter_tests: "abc " | _, "abc " "def" | _, "abc " "def",
\* the cyclic "abc " "def" and "ab" "c " "def", "abc " [a, b], and the
\* offset cycle into "abc".
TestAbc == Term(<<Seg("P", 6)>>, PlainEnd("Var"), "direct")

TestAbcDefVar == Term(<<Seg("P", 6), Seg("P", 7)>>, PlainEnd("Var"), "direct")

TestAbcDefNil == Term(<<Seg("P", 6), Seg("P", 7)>>, PlainEnd("Nil"), "direct")

TestCyclic == Term(<<Seg("P", 6), Seg("P", 7)>>, End("CycOff", 1, 0, 0), "direct")

TestCyclicSplit ==
  Term(<<Seg("P", 5), Seg("P", 8), Seg("P", 7)>>, End("CycOff", 1, 0, 0), "direct")

TestAbcList ==
  Term(<<Seg("P", 6), Seg("C", 97), Seg("C", 98)>>, PlainEnd("Nil"), "direct")

TestOffsetCycle == Term(<<Seg("P", 9)>>, End("CycOff", 1, 1, 0), "offset")

TestInputs ==
  {Input(t, NilTerm, "next", 0) :
     t \in {TestAbc, TestAbcDefVar, TestAbcDefNil, TestCyclic, TestOffsetCycle}}
  \cup {Input(TestCyclic, NilTerm, "compare_same", 0),
        Input(TestCyclic, TestCyclicSplit, "compare", 0),
        Input(TestCyclicSplit, TestCyclic, "compare", 0),
        Input(TestAbcList, TestAbc, "compare", 0),
        Input(TestAbc, TestAbcList, "compare", 0)}

IterTerms == TermsOver(IterKinds, MaxSegs, TRUE)

\* The terms whose heap is also handed over with its last cell missing, and
\* that are also compared with themselves.
ShortTerms == TermsOver(IterKinds, MaxSegs - 1, TRUE)

CmpTerms == TermsOver(CmpKinds, MaxTotalSegs, FALSE)

Inputs ==
  TestInputs
  \cup {Input(t, NilTerm, "next", 0) : t \in IterTerms}
  \cup {Input(t, NilTerm, "next", 1) : t \in ShortTerms}
  \cup {Input(t, NilTerm, "compare_same", 0) : t \in ShortTerms}
  \cup UNION {{Input(t, u, "compare", 0) :
                  u \in {x \in CmpTerms :
                           Len(t.segs) + Len(x.segs) <= MaxTotalSegs}} :
               t \in CmpTerms}

(***************************************************************************)
(* The state machine: a caller either drains a fresh iterator with next()  *)
(* (while let Some(_) = iter.next() {}), or runs compare_pstr_prefixes on  *)
(* two fresh iterators.                                                    *)
(***************************************************************************)

PInit ==
  \E inp \in Inputs :
    /\ heap = HeapOf(inp.d1, inp.d2, inp.op = "compare", inp.cut)
    /\ RefsInRange(heap)
    /\ StartOf(inp.d1, 0) \in DOMAIN heap
    /\ desc1 = inp.d1
    /\ desc2 = inp.d2
    /\ op = inp.op
    /\ i1 = IterNew(heap, StartOf(inp.d1, 0))
    /\ i2 = IF inp.op = "compare"
            THEN IterNew(heap, StartOf(inp.d2, Len(TermCells(inp.d1, 0))))
            ELSE IterNew(heap, StartOf(inp.d1, 0))
    /\ r1 = NoStep
    /\ r2 = NoStep
    /\ pc = IF inp.op = "next" THEN "iter" ELSE "start"
    /\ result = NoResult
    /\ items = <<>>
    /\ AIdle
    /\ NIdle
    /\ CIdle /\ DIdle /\ QIdle /\ MIdle

Deliver(o) ==
  /\ i1' = o.iter
  /\ items' = IF o.st = "some" THEN Append(items, o.out) ELSE items
  /\ pc' = CASE o.st = "some" -> "iter" [] o.st = "none" -> "done" [] OTHER -> "panic"
  /\ UNCHANGED <<heap, op, desc1, desc2, i2, r1, r2, result, beside_pstr>>

\* next() while the stepper is pre_cycle_discovery_stepper
NextPre ==
  /\ pc = "iter"
  /\ i1.stepper = "pre"
  /\ Deliver(pre_cycle_discovery_stepper(heap, i1))

\* next() while the stepper is post_cycle_discovery_stepper
NextPost ==
  /\ pc = "iter"
  /\ i1.stepper = "post"
  /\ Deliver(post_cycle_discovery_stepper(heap, i1))

PanicResult == [NoResult EXCEPT !.kind = "panic"]

Apply(cs) ==
  /\ i1' = cs.i1
  /\ i2' = cs.i2
  /\ r1' = cs.r1
  /\ r2' = cs.r2
  /\ pc' = cs.pc
  /\ result' = IF cs.pc = "panic" THEN PanicResult ELSE result
  /\ UNCHANGED <<heap, op, desc1, desc2, items, beside_pstr>>

Return(res) ==
  /\ pc' = "done"
  /\ result' = res
  /\ UNCHANGED <<heap, op, desc1, desc2, i1, i2, r1, r2, items, beside_pstr>>

\* let mut r1 = i1.step(..); let mut r2 = i2.step(..);
CmpStart ==
  /\ pc = "start"
  /\ LET s1 == step(heap, i1.focus, i1.brent_st.hare)
         s2 == step(heap, i2.focus, i2.brent_st.hare)
     IN Apply(CmpState(i1, i2, s1, s2,
                       IF s1.st = "panic" \/ s2.st = "panic" THEN "panic" ELSE "loop"))

InLoop(k1, k2) ==
  /\ pc = "loop"
  /\ r1.st = "some" /\ r2.st = "some"
  /\ r1.it.kind = k1 /\ r2.it.kind = k2

\* (Char, Char)
CmpCharChar ==
  /\ InLoop("Char", "Char")
  /\ IF r1.it.a # r2.it.a
     THEN Return(Ordered(CharCmp(r1.it.a, r2.it.a)))
     ELSE Apply(AdvanceBoth(heap, i1, i2, r1, r2))

\* (Char, PStrSegment)
CmpCharSeg ==
  /\ InLoop("Char", "PStrSegment")
  /\ LET c1 == r1.it.a
         a == r2.it.a
         n == r2.it.n
     IN IF ~StrFromOk(a, n) THEN Apply(CmpState(i1, i2, r1, r2, "panic"))
        ELSE IF as_str_from(a, n) # <<>>
        THEN LET c2 == as_str_from(a, n)[1]
             IN IF c1 # c2 THEN Return(Ordered(CharSegOrder(c1, c2)))
                ELSE IF n + 1 < Len(AtomStr(a))
                THEN Apply(AdvanceFirst(heap, i1, i2, r1,
                                        WithItem(r2, SegItem(r2.it.focus, a, n + 1))))
                ELSE Apply(AdvanceBoth(heap, i1, i2, r1, r2))
        ELSE Apply(AdvanceSecond(heap, i1, i2, r1, r2))

\* (PStrSegment, Char)
CmpSegChar ==
  /\ InLoop("PStrSegment", "Char")
  /\ LET c2 == r2.it.a
         a == r1.it.a
         n == r1.it.n
     IN IF ~StrFromOk(a, n) THEN Apply(CmpState(i1, i2, r1, r2, "panic"))
        ELSE IF as_str_from(a, n) # <<>>
        THEN LET c1 == as_str_from(a, n)[1]
             IN IF c1 # c2 THEN Return(Ordered(SegCharOrder(c1, c2)))
                ELSE IF n + 1 < Len(AtomStr(a))
                THEN Apply(AdvanceSecond(heap, i1, i2,
                                         WithItem(r1, SegItem(r1.it.focus, a, n + 1)),
                                         r2))
                ELSE Apply(AdvanceBoth(heap, i1, i2, r1, r2))
        ELSE Apply(AdvanceFirst(heap, i1, i2, r1, r2))

\* (PStrSegment, PStrSegment)
CmpSegSeg ==
  /\ InLoop("PStrSegment", "PStrSegment")
  /\ LET a1 == r1.it.a
         n1 == r1.it.n
         a2 == r2.it.a
         n2 == r2.it.n
     IN IF a1 = a2 /\ n1 = n2 THEN Apply(AdvanceBoth(heap, i1, i2, r1, r2))
        ELSE IF ~StrFromOk(a1, n1) \/ ~StrFromOk(a2, n2)
        THEN Apply(CmpState(i1, i2, r1, r2, "panic"))
        ELSE LET str1 == as_str_from(a1, n1)
                 str2 == as_str_from(a2, n2)
             IN CASE Len(str1) = Len(str2) /\ str1 = str2 ->
                       Apply(AdvanceBoth(heap, i1, i2, r1, r2))
                  [] Len(str1) < Len(str2) /\ StartsWith(str2, str1) ->
                       Apply(AdvanceFirst(heap, i1, i2, r1,
                               WithItem(r2, SegItem(r2.it.focus, a2, n2 + Len(str1)))))
                  [] Len(str1) > Len(str2) /\ StartsWith(str1, str2) ->
                       Apply(AdvanceSecond(heap, i1, i2,
                               WithItem(r1, SegItem(r1.it.focus, a1, n1 + Len(str2))),
                               r2))
                  [] OTHER -> Return(Ordered(StrCmp(str1, str2)))

\* r1 or r2 is None: break
CmpBreak ==
  /\ pc = "loop"
  /\ r1.st # "some" \/ r2.st # "some"
  /\ Apply(CmpState(i1, i2, r1, r2, "after"))

\* The comparison of the focus cells after the loop.
CmpFinish ==
  /\ pc = "after"
  /\ result' = CompareTail(heap, i1, i2, r1, r2)
  /\ pc' = IF result'.kind = "panic" THEN "panic" ELSE "done"
  /\ UNCHANGED <<heap, op, desc1, desc2, i1, i2, r1, r2, items, beside_pstr>>

PNext ==
  \/ NextPre
  \/ NextPost
  \/ CmpStart
  \/ CmpCharChar
  \/ CmpCharSeg
  \/ CmpSegChar
  \/ CmpSegSeg
  \/ CmpBreak
  \/ CmpFinish

SpecPStr == PInit /\ [][PNext]_vars

(***************************************************************************)
(* What a term denotes, read off its description: the characters before   *)
(* the cycle, the characters of one turn of the cycle (empty if there is   *)
(* none), and how a finite term ends.                                      *)
(***************************************************************************)

SegChars(s) == IF s.k \in {"P", "A"} THEN AtomStr(s.x) ELSE <<s.x>>

RECURSIVE Concat(_, _, _)
Concat(segs, i, j) ==
  IF i > j THEN <<>> ELSE SegChars(segs[i]) \o Concat(segs, i + 1, j)

Den(d) ==
  LET n == Len(d.segs)
      all == Concat(d.segs, 1, n)
      e == d.end
  IN CASE e.e = "Nil" -> [pre |-> all, per |-> <<>>, fin |-> "nil"]
       [] e.e = "VarNil" -> [pre |-> all, per |-> <<>>, fin |-> "nil"]
       [] e.e = "Var" -> [pre |-> all, per |-> <<>>, fin |-> "var"]
       [] e.e = "Fix" -> [pre |-> all, per |-> <<>>, fin |-> "other"]
       [] e.e = "CStr" -> [pre |-> AtomStr(e.a), per |-> <<>>, fin |-> "nil"]
       [] e.e = "CStrOff" ->
            [pre |-> all \o as_str_from(e.a, e.n), per |-> <<>>, fin |-> "nil"]
       [] e.e = "Cyc" ->
            [pre |-> Concat(d.segs, 1, e.k - 1), per |-> Concat(d.segs, e.k, n),
             fin |-> "cyc"]
       [] e.e = "VarCyc" -> [pre |-> <<>>, per |-> all, fin |-> "cyc"]
       [] e.e = "CycOff" ->
            [pre |-> IF d.root = "offset" THEN <<>> ELSE all,
             per |-> as_str_from(d.segs[e.k].x, e.n) \o Concat(d.segs, e.k + 1, n),
             fin |-> "cyc"]

IsCyclic(d) == Den(d).fin = "cyc"

\* The i-th character (from 1) of the denoted sequence, 0 past its end.
CharAt(d, i) ==
  LET x == Den(d)
  IN IF i <= Len(x.pre) THEN x.pre[i]
     ELSE IF x.per = <<>> THEN 0
     ELSE x.per[((i - Len(x.pre) - 1) % Len(x.per)) + 1]

\* A heap is well formed when every cons pair, structure, partial-string
\* segment and offset pair it refers to lies wholly inside it.
WellFormed(H) ==
  /\ RefsInRange(H)
  /\ \A i \in DOMAIN H :
       /\ H[i].tag = "Lis" => InHeap(H, H[i].v + 1)
       /\ H[i].tag = "Str" => InHeap(H, H[i].v + H[H[i].v].ar)
       /\ H[i].tag = "PStr" => InHeap(H, i + 1)
       /\ H[i].tag = "PStrOffset" =>
            /\ InHeap(H, i + 1)
            /\ H[i + 1].tag = "Fixnum"
            /\ H[H[i].v].tag \in {"PStr", "CStr"}
            /\ H[i + 1].v <= Len(AtomStr(H[H[i].v].v))
       /\ H[i].tag = "PStrLoc" => H[H[i].v].tag \in {"PStr", "PStrOffset"}

(***************************************************************************)
(* Properties of the iterator.                                             *)
(***************************************************************************)

Wf == WellFormed(heap)

Draining == op = "next"

Comparing == op = "compare"

\* C1: on a well-formed heap whose structure from h is cyclic, repeated
\* next() returns None after finitely many calls: every call returns, and
\* at most 3 * (segments + 1) items are yielded before None.
C1_CyclicIterationTerminates ==
  (Draining /\ Wf /\ IsCyclic(desc1)) =>
     /\ pc \in {"iter", "done"}
     /\ Len(items) <= 3 * (Len(desc1.segs) + 1)

C1_Witness ==
  /\ Draining /\ Wf /\ IsCyclic(desc1)
  /\ pc = "done" /\ i1.stepper = "post"
  /\ Len(items) > Len(desc1.segs)

\* C2: compare_pstr_prefixes on two fresh iterators created at the same index
\* of the same heap returns Ordered(Equal), whatever the structure.
C2_SameIndexEqual ==
  (op = "compare_same" /\ Wf /\ pc = "done") => result = Ordered("Equal")

C2_Witness ==
  /\ op = "compare_same" /\ Wf /\ pc = "done"
  /\ IsCyclic(desc1) /\ Len(desc1.segs) >= 2
  /\ result = Ordered("Equal")

TotLen(d) == Len(Den(d).pre) + Len(Den(d).per)

\* Enough positions to tell two eventually periodic sequences apart.
CmpLen == 2 * (TotLen(desc1) + TotLen(desc2)) + 1

SameSeq == \A i \in 1 .. CmpLen : CharAt(desc1, i) = CharAt(desc2, i)

\* C3: two terms that denote the same complete (finite or cyclic) character
\* sequence compare Ordered(Equal), however their segments are split.
C3_SameSequenceEqual ==
  (Comparing /\ pc = "done" /\ SameSeq /\ Den(desc1).fin = Den(desc2).fin
     /\ Den(desc1).fin \in {"nil", "cyc"})
  => result = Ordered("Equal")

IsList3(d) ==
  /\ Len(d.segs) = 3
  /\ \A i \in 1 .. 3 : d.segs[i].k \in {"C", "A", "S"}
  /\ d.end.e = "VarCyc" \/ (d.end.e = "Cyc" /\ d.end.k = 1)

\* C4 as claimed: the iterator over a 3-element list whose tail is bound back
\* to its head yields exactly three items and then None.
C4_ExactlyThreeItems ==
  (Draining /\ Wf /\ IsList3(desc1) /\ pc = "done") => Len(items) = 3

\* C4 as amended: it yields the three elements over and over, in order, six
\* items when the iteration starts on the cycle and seven when it enters the
\* cycle through a head cell, and then None.
C4_CycleItems ==
  (Draining /\ Wf /\ IsList3(desc1) /\ pc = "done") =>
     /\ Len(items) = IF desc1.root = "tail" THEN 6 ELSE 7
     /\ \A i \in 1 .. Len(items) :
          items[i].kind = "Char" /\ items[i].a = CharAt(desc1, i)

C4_Witness ==
  /\ Draining /\ Wf /\ IsList3(desc1) /\ pc = "done"
  /\ desc1.end.e = "VarCyc" /\ Len(items) = 7

\* C5: after the iterator is exhausted, at_string_terminator() holds exactly
\* when the structure ended in the empty list (a complete string ends in
\* one); not at an unbound variable, a non-list tail or a cycle.
C5_TerminatorIffNil ==
  (Draining /\ Wf /\ pc = "done") =>
     (at_string_terminator(heap, i1) <=> Den(desc1).fin = "nil")

C5_Witness ==
  /\ Draining /\ Wf /\ pc = "done"
  /\ Len(items) >= 2 /\ desc1.end.e = "Nil"
  /\ at_string_terminator(heap, i1)

\* The first term goes on where the second stops at an unbound variable.
FirstExtendsSecond ==
  /\ Den(desc2).fin = "var"
  /\ \A i \in 1 .. Len(Den(desc2).pre) : CharAt(desc1, i) = CharAt(desc2, i)
  /\ CharAt(desc1, Len(Den(desc2).pre) + 1) # 0

ItemChar(item) ==
  IF item.kind = "Char" THEN item.a
  ELSE IF item.kind = "PStrSegment" /\ item.n < Len(AtomStr(item.a))
       THEN AtomStr(item.a)[item.n + 1] ELSE 0

\* C6: when the first sequence strictly extends the second and the second
\* ends at an unbound variable, the result is FirstIterContinuable(item) with
\* item the first unmatched item of the first iterator, and the focus of the
\* second iterator (the index focus() returns) is the unbound variable cell.
C6_FirstIterContinuable ==
  (Comparing /\ pc = "done" /\ FirstExtendsSecond) =>
     /\ result.kind = "FirstIterContinuable"
     /\ ItemChar(result.it) = CharAt(desc1, Len(Den(desc2).pre) + 1)
     /\ IsVar(heap[i2.brent_st.hare])
     /\ heap[i2.brent_st.hare].v = i2.brent_st.hare

FirstDiff(p) ==
  /\ CharAt(desc1, p) # 0
  /\ CharAt(desc2, p) # 0
  /\ CharAt(desc1, p) # CharAt(desc2, p)
  /\ \A i \in 1 .. (p - 1) : CharAt(desc1, i) = CharAt(desc2, i)

\* C7: when the two sequences first differ at some position, with c1 from i1
\* and c2 from i2, the result is Ordered(c1 compared to c2).
C7_OrderedByFirstDifference ==
  (Comparing /\ pc = "done") =>
     \A p \in 1 .. CmpLen :
        FirstDiff(p) => result = Ordered(CharCmp(CharAt(desc1, p), CharAt(desc2, p)))

ATerm(k, name, lit, n, args) ==
  [k |-> k, name |-> name, lit |-> lit, n |-> n, args |-> args]

Fixnum(n) == ATerm("Literal", "", "Fixnum", n, <<>>)

AtomLit(name) == ATerm("Literal", name, "Atom", 0, <<>>)

VarTerm(name, rt, r) == ATerm("Var", name, rt, r, <<>>)

AnonVar == ATerm("AnonVar", "", "", 0, <<>>)

ConsTerm == ATerm("Cons", "", "", 0, <<>>)

Clause(name, args) == ATerm("Clause", name, "", 0, args)

\* ArithmeticTerm: Reg(RegType), Interm(usize), Number(Number); a Number is
\* one of the four numeric kinds with its value, or one of the float
\* constants e, pi, epsilon.
Reg(rt, r) == [t |-> "Reg", k |-> rt, n |-> r]

Interm(i) == [t |-> "Interm", k |-> "", n |-> i]

Number(k, n) == [t |-> "Number", k |-> k, n |-> n]

NoOperand == [t |-> "None", k |-> "", n |-> 0]

\* ArithmeticTerm::interm_or
interm_or(a, d) == IF a.t = "Interm" THEN a.n ELSE d

\* ArithmeticError
NoError == [e |-> "None", name |-> "", arity |-> 0]

UninstantiatedVar == [e |-> "UninstantiatedVar", name |-> "", arity |-> 0]

NonEvaluableFunctor(name, arity) ==
  [e |-> "NonEvaluableFunctor", name |-> name, arity |-> arity]

\* Instruction: the variant, its operands and its destination slot.
Instr(ins, a1, a2, t) == [ins |-> ins, a1 |-> a1, a2 |-> a2, t |-> t]

NoInstr == Instr("", NoOperand, NoOperand, 0)

UnaryTable ==
  << <<"abs", "Abs">>, <<"-", "Neg">>, <<"+", "Plus">>, <<"cos", "Cos">>,
     <<"sin", "Sin">>, <<"tan", "Tan">>, <<"log", "Log">>, <<"exp", "Exp">>,
     <<"sqrt", "Sqrt">>, <<"acos", "ACos">>, <<"asin", "ASin">>,
     <<"atan", "ATan">>, <<"float", "Float">>, <<"truncate", "Truncate">>,
     <<"round", "Round">>, <<"ceiling", "Ceiling">>, <<"floor", "Floor">>,
     <<"sign", "Sign">>, <<"\\", "BitwiseComplement">> >>

BinaryTable ==
  << <<"+", "Add">>, <<"-", "Sub">>, <<"/", "Div">>, <<"//", "IDiv">>,
     <<"max", "Max">>, <<"min", "Min">>, <<"div", "IntFloorDiv">>,
     <<"rdiv", "RDiv">>, <<"*", "Mul">>, <<"**", "Pow">>, <<"^", "IntPow">>,
     <<">>", "Shr">>, <<"<<", "Shl">>, <<"/\\", "And">>, <<"\\/", "Or">>,
     <<"xor", "Xor">>, <<"mod", "Mod">>, <<"rem", "Rem">>, <<"gcd", "Gcd">>,
     <<"atan2", "ATan2">> >>

\* The instruction variant a table gives a name, "" when it has none.
Variant(tab, name) ==
  LET S == {i \in DOMAIN tab : tab[i][1] = name}
  IN IF S = {} THEN "" ELSE tab[CHOOSE i \in S : TRUE][2]

\* get_unary_instr reporting an unknown name with the arity of the binary
\* table.
get_unary_instr_arity_2(name, a1, t) ==
  IF Variant(UnaryTable, name) # ""
  THEN [ok |-> TRUE, ins |-> Instr(Variant(UnaryTable, name), a1, NoOperand, t),
        err |-> NoError]
  ELSE [ok |-> FALSE, ins |-> NoInstr, err |-> NonEvaluableFunctor(name, 2)]

\* ArithmeticEvaluator::get_unary_instr
get_unary_instr(name, a1, t) ==
  IF Variant(UnaryTable, name) # ""
  THEN [ok |-> TRUE, ins |-> Instr(Variant(UnaryTable, name), a1, NoOperand, t),
        err |-> NoError]
  ELSE [ok |-> FALSE, ins |-> NoInstr, err |-> NonEvaluableFunctor(name, 1)]

\* ArithmeticEvaluator::get_binary_instr
get_binary_instr(name, a1, a2, t) ==
  IF Variant(BinaryTable, name) # ""
  THEN [ok |-> TRUE, ins |-> Instr(Variant(BinaryTable, name), a1, a2, t),
        err |-> NoError]
  ELSE [ok |-> FALSE, ins |-> NoInstr, err |-> NonEvaluableFunctor(name, 2)]

\* push_literal
push_literal(stack, c) ==
  CASE c.lit \in {"Fixnum", "Integer", "Float", "Rational"} ->
         [ok |-> TRUE, interm |-> Append(stack, Number(c.lit, c.n)), err |-> NoError]
    [] c.lit = "Atom" /\ c.name \in {"e", "pi", "epsilon"} ->
         [ok |-> TRUE, interm |-> Append(stack, Number(c.name, 0)), err |-> NoError]
    [] OTHER ->
         [ok |-> FALSE, interm |-> stack, err |-> NonEvaluableFunctor(c.name, 0)]

Min(a, b) == IF a <= b THEN a ELSE b

Max(a, b) == IF a >= b THEN a ELSE b

\* The evaluator's operand stack and slot counter.
Ev(stack, c) == [interm |-> stack, interm_c |-> c]

\* incr_interm leaving the slot counter as it was.
incr_interm_same_counter(ev) ==
  [ev |-> Ev(Append(ev.interm, Interm(ev.interm_c)), ev.interm_c),
   temp |-> ev.interm_c]

\* ArithmeticEvaluator::incr_interm
incr_interm(ev) ==
  [ev |-> Ev(Append(ev.interm, Interm(ev.interm_c)), ev.interm_c + 1),
   temp |-> ev.interm_c]

Pop(stack) == SubSeq(stack, 1, Len(stack) - 1)

Top(stack) == stack[Len(stack)]

ClauseOutcome(st, ev, ins, err) == [st |-> st, ev |-> ev, ins |-> ins, err |-> err]

Emit(ev, r) ==
  IF r.ok THEN ClauseOutcome("ok", ev, r.ins, NoError)
  ELSE ClauseOutcome("err", ev, NoInstr, r.err)

\* instr_from_clause taking the larger slot when both operands are Interm.
instr_from_clause_larger_slot(ev, name, arity) ==
  CASE arity = 1 ->
         IF Len(ev.interm) < 1 THEN ClauseOutcome("panic", ev, NoInstr, NoError)
         ELSE LET a1 == Top(ev.interm)
                  ev1 == Ev(Pop(ev.interm), ev.interm_c)
              IN IF interm_or(a1, 0) = 0
                 THEN LET i == incr_interm(ev1)
                      IN Emit(i.ev, get_unary_instr(name, a1, i.temp))
                 ELSE Emit(Ev(Append(ev1.interm, a1), ev1.interm_c),
                           get_unary_instr(name, a1, interm_or(a1, 0)))
    [] arity = 2 ->
         IF Len(ev.interm) < 2 THEN ClauseOutcome("panic", ev, NoInstr, NoError)
         ELSE LET a2 == Top(ev.interm)
                  a1 == Top(Pop(ev.interm))
                  ev2 == Ev(Pop(Pop(ev.interm)), ev.interm_c)
                  max_interm == Max(interm_or(a1, 0), interm_or(a2, 0))
              IN IF max_interm = 0
                 THEN LET i == incr_interm(ev2)
                      IN Emit(i.ev, get_binary_instr(name, a1, a2, i.temp))
                 ELSE Emit(Ev(Append(ev2.interm, Interm(max_interm)),
                              max_interm + 1),
                           get_binary_instr(name, a1, a2, max_interm))
    [] OTHER -> ClauseOutcome("err", ev, NoInstr, NonEvaluableFunctor(name, arity))

\* ArithmeticEvaluator::instr_from_clause; st = "panic" is a failed unwrap of
\* interm.pop().
instr_from_clause(ev, name, arity) ==
  CASE arity = 1 ->
         IF Len(ev.interm) < 1 THEN ClauseOutcome("panic", ev, NoInstr, NoError)
         ELSE LET a1 == Top(ev.interm)
                  ev1 == Ev(Pop(ev.interm), ev.interm_c)
              IN IF interm_or(a1, 0) = 0
                 THEN LET i == incr_interm(ev1)
                      IN Emit(i.ev, get_unary_instr(name, a1, i.temp))
                 ELSE Emit(Ev(Append(ev1.interm, a1), ev1.interm_c),
                           get_unary_instr(name, a1, interm_or(a1, 0)))
    [] arity = 2 ->
         IF Len(ev.interm) < 2 THEN ClauseOutcome("panic", ev, NoInstr, NoError)
         ELSE LET a2 == Top(ev.interm)
                  a1 == Top(Pop(ev.interm))
                  ev2 == Ev(Pop(Pop(ev.interm)), ev.interm_c)
                  min_interm == Min(interm_or(a1, 0), interm_or(a2, 0))
                  max_interm == Max(interm_or(a1, 0), interm_or(a2, 0))
              IN IF min_interm = 0
                 THEN IF max_interm = 0
                      THEN LET i == incr_interm(ev2)
                           IN Emit(i.ev, get_binary_instr(name, a1, a2, i.temp))
                      ELSE Emit(Ev(Append(ev2.interm, Interm(max_interm)),
                                   max_interm + 1),
                                get_binary_instr(name, a1, a2, max_interm))
                 ELSE Emit(Ev(Append(ev2.interm, Interm(min_interm)),
                              min_interm + 1),
                           get_binary_instr(name, a1, a2, min_interm))
    [] OTHER -> ClauseOutcome("err", ev, NoInstr, NonEvaluableFunctor(name, arity))

(***************************************************************************)
(* ArithInstructionIterator and ArithmeticEvaluator::eval.                 *)
(***************************************************************************)

\* ClauseType::from: "IsFloat" for the inlined float/1, "Inlined" for the
\* other inlined type tests, "Named" otherwise.
ClauseTypeFrom(name, arity) ==
  IF name = "float" /\ arity = 1 THEN "IsFloat"
  ELSE IF name \in {"var", "atom", "integer"} /\ arity = 1 THEN "Inlined"
  ELSE "Named"

\* TermIterState
IterState(k, child_num, term) == [k |-> k, child_num |-> child_num, term |-> term]

\* TermIterState::subterm_to_state
subterm_to_state(term) ==
  CASE term.k = "AnonVar" -> IterState("AnonVar", 0, term)
    [] term.k = "Clause" -> IterState("Clause", 0, term)
    [] term.k = "Literal" -> IterState("Literal", 0, term)
    [] term.k = "Var" -> IterState("Var", 0, term)
    [] term.k = "Cons" -> IterState("InitialCons", 0, term)
    [] OTHER -> IterState("InitialPartialString", 0, term)

\* ArithInstructionIterator::from
ArithIterFrom(term) ==
  CASE term.k = "AnonVar" -> [ok |-> FALSE, stack |-> <<>>, err |-> UninstantiatedVar]
    [] term.k = "Clause" ->
         IF ClauseTypeFrom(term.name, Len(term.args)) \in {"Named", "IsFloat"}
         THEN [ok |-> TRUE, stack |-> <<IterState("Clause", 0, term)>>,
               err |-> NoError]
         ELSE [ok |-> FALSE, stack |-> <<>>,
               err |-> NonEvaluableFunctor(term.name, Len(term.args))]
    [] term.k = "Literal" ->
         [ok |-> TRUE, stack |-> <<IterState("Literal", 0, term)>>, err |-> NoError]
    [] term.k = "Var" ->
         [ok |-> TRUE, stack |-> <<IterState("Var", 0, term)>>, err |-> NoError]
    [] OTHER -> [ok |-> FALSE, stack |-> <<>>, err |-> NonEvaluableFunctor(".", 2)]

\* The Clause arm of next taking the subterms from the last to the first.
push_clause_and_subterm_from_last(stack, st) ==
  Append(Append(stack, IterState("Clause", st.child_num + 1, st.term)),
         subterm_to_state(st.term.args[Len(st.term.args) - st.child_num]))

\* The Clause arm of ArithInstructionIterator::next with child_num < arity:
\* the clause goes back with child_num + 1, its next subterm on top of it.
push_clause_and_subterm(stack, st) ==
  Append(Append(stack, IterState("Clause", st.child_num + 1, st.term)),
         subterm_to_state(st.term.args[st.child_num + 1]))

\* The register eval gives a variable: its own when that is not 0, else the
\* Temp or Perm slot bound to its name; ok = FALSE for UninstantiatedVar.
NoBinding == [k |-> "None", n |-> 0]

\* The variable arm of eval without the guards t != 0 and p != 0.
var_register_any_slot(bs, term) ==
  IF term.n = 0
  THEN LET b == IF term.name \in DOMAIN bs THEN bs[term.name] ELSE NoBinding
       IN IF b.k \in {"Temp", "Perm"}
          THEN [ok |-> TRUE, r |-> Reg(b.k, b.n)]
          ELSE [ok |-> FALSE, r |-> NoOperand]
  ELSE [ok |-> TRUE, r |-> Reg(term.lit, term.n)]

var_register(bs, term) ==
  IF term.n = 0
  THEN LET b == IF term.name \in DOMAIN bs THEN bs[term.name] ELSE NoBinding
       IN IF b.k \in {"Temp", "Perm"} /\ b.n # 0
          THEN [ok |-> TRUE, r |-> Reg(b.k, b.n)]
          ELSE [ok |-> FALSE, r |-> NoOperand]
  ELSE [ok |-> TRUE, r |-> Reg(term.lit, term.n)]

\* Result<ArithCont, ArithmeticError>
OkResult(c, at) == [ok |-> TRUE, code |-> c, at |-> at, err |-> NoError]

ErrResult(e) == [ok |-> FALSE, code |-> <<>>, at |-> <<>>, err |-> e]

(***************************************************************************)
(* The expressions compiled.                                               *)
(***************************************************************************)

\* Most operator nodes of an expression of the generated family.
MaxOps == 3

Leaves == {Fixnum(2), VarTerm("X", "Temp", 1)}

UnaryOps == {"-"}

BinaryOps == {"+"}

\* The expressions over Leaves with exactly n operator nodes.
RECURSIVE TermsWithOps(_)
TermsWithOps(n) ==
  IF n = 0 THEN Leaves
  ELSE {Clause(u, <<x>>) : u \in UnaryOps, x \in TermsWithOps(n - 1)}
       \cup UNION {{Clause(b, <<x, y>>) :
                      b \in BinaryOps, x \in TermsWithOps(i),
                      y \in TermsWithOps(n - 1 - i)} :
                   i \in 0 .. (n - 1)}

\* 2 + 3 * 4
TestExpr == Clause("+", <<Fixnum(2), Clause("*", <<Fixnum(3), Fixnum(4)>>)>>)

OtherLeaves ==
  {AnonVar, ConsTerm, ATerm("PartialString", "", "", 0, <<>>), AtomLit("pi"),
   AtomLit("foo"), VarTerm("Y", "Temp", 0), VarTerm("Y", "Perm", 3)}

\* Expressions with a leaf or an operator that may not be evaluable.
OtherTerms ==
  OtherLeaves
  \cup {Clause("-", <<l>>) : l \in OtherLeaves}
  \cup {Clause("+", <<Fixnum(2), l>>) : l \in OtherLeaves}
  \cup {Clause("*", <<Clause("+", <<l, Fixnum(2)>>), Fixnum(3)>>) : l \in OtherLeaves}
  \cup {Clause("*", <<Clause("+", <<Fixnum(2), Fixnum(3)>>), l>>) : l \in OtherLeaves}
  \cup {Clause(f, <<AnonVar>>) : f \in {"foo", "var"}}
  \cup {Clause(f, <<Fixnum(2)>>) : f \in {"foo", "float", "var", "abs"}}
  \cup {Clause(f, <<Fixnum(2), Fixnum(3)>>) : f \in {"foo", "max", "is"}}
  \cup {Clause("f", <<Fixnum(2), Fixnum(3), Fixnum(4)>>),
        Clause("+", <<Clause("float", <<Fixnum(2)>>), Clause("var", <<Fixnum(3)>>)>>),
        Clause("-", <<Clause("foo", <<Fixnum(2), Fixnum(3)>>)>>),
        Clause("*", <<Fixnum(2), Clause("f", <<Fixnum(2), Fixnum(3), Fixnum(4)>>)>>)}

\* The allocator's bindings: Y bound to a permanent slot, to slot 0, or not
\* bound at all.
BoundY == "Y" :> [k |-> "Perm", n |-> 2]

BindingChoices == {BoundY, "Y" :> [k |-> "Temp", n |-> 0], <<>>}

\* target_int as compile_arith_expr is called.
TargetInts == {1, 2}

AInput(t, bs, ti) == [src |-> t, bindings |-> bs, target_int |-> ti]

AInputs ==
  {AInput(t, BoundY, ti) :
     t \in {TestExpr} \cup UNION {TermsWithOps(n) : n \in 0 .. MaxOps},
     ti \in TargetInts}
  \cup {AInput(t, bs, 1) : t \in OtherTerms, bs \in BindingChoices}

(***************************************************************************)
(* The state machine of eval: one action for the start of the iteration    *)
(* and one for each arm of the loop.                                       *)
(***************************************************************************)

AInit ==
  \E inp \in AInputs :
    /\ src = inp.src
    /\ bindings = inp.bindings
    /\ state_stack = <<>>
    /\ interm = <<>>
    /\ interm_c = inp.target_int
    /\ code = <<>>
    /\ apc = "start"
    /\ aresult = <<>>
    /\ PIdle
    /\ NIdle
    /\ CIdle /\ DIdle /\ QIdle /\ MIdle

Fail(e) ==
  /\ apc' = "done"
  /\ aresult' = ErrResult(e)

\* let mut iter = src.iter()?;
EvalStart ==
  /\ apc = "start"
  /\ LET f == ArithIterFrom(src)
     IN IF f.ok
        THEN state_stack' = f.stack /\ apc' = "iter" /\ UNCHANGED aresult
        ELSE Fail(f.err) /\ UNCHANGED state_stack
  /\ UNCHANGED <<src, bindings, interm, interm_c, code, beside_arith>>

Popped(k) ==
  /\ apc = "iter"
  /\ state_stack # <<>>
  /\ Top(state_stack).k = k

\* A clause with subterms left: next() goes on with its next subterm.
IterClauseDescend ==
  /\ Popped("Clause")
  /\ Top(state_stack).child_num < Len(Top(state_stack).term.args)
  /\ state_stack' = push_clause_and_subterm(Pop(state_stack), Top(state_stack))
  /\ UNCHANGED <<src, bindings, interm, interm_c, code, apc, aresult, beside_arith>>

\* A clause with all subterms done: ArithTermRef::Op(name, arity)
EvalOp ==
  /\ Popped("Clause")
  /\ Top(state_stack).child_num = Len(Top(state_stack).term.args)
  /\ state_stack' = Pop(state_stack)
  /\ LET t == Top(state_stack).term
         o == instr_from_clause(Ev(interm, interm_c), t.name, Len(t.args))
     IN /\ interm' = o.ev.interm
        /\ interm_c' = o.ev.interm_c
        /\ CASE o.st = "ok" ->
                  code' = Append(code, o.ins) /\ UNCHANGED <<apc, aresult>>
             [] o.st = "err" -> Fail(o.err) /\ UNCHANGED code
             [] OTHER -> apc' = "panic" /\ UNCHANGED <<code, aresult>>
  /\ UNCHANGED <<src, bindings, beside_arith>>

\* ArithTermRef::Literal(c)
EvalLiteral ==
  /\ Popped("Literal")
  /\ state_stack' = Pop(state_stack)
  /\ LET l == push_literal(interm, Top(state_stack).term)
     IN /\ interm' = l.interm
        /\ IF l.ok THEN UNCHANGED <<apc, aresult>> ELSE Fail(l.err)
  /\ UNCHANGED <<src, bindings, interm_c, code, beside_arith>>

\* ArithTermRef::Var(cell, name)
EvalVar ==
  /\ Popped("Var")
  /\ state_stack' = Pop(state_stack)
  /\ LET v == var_register(bindings, Top(state_stack).term)
     IN IF v.ok
        THEN interm' = Append(interm, v.r) /\ UNCHANGED <<apc, aresult>>
        ELSE Fail(UninstantiatedVar) /\ UNCHANGED interm
  /\ UNCHANGED <<src, bindings, interm_c, code, beside_arith>>

\* TermIterState::AnonVar
EvalAnonVar ==
  /\ Popped("AnonVar")
  /\ state_stack' = Pop(state_stack)
  /\ Fail(UninstantiatedVar)
  /\ UNCHANGED <<src, bindings, interm, interm_c, code, beside_arith>>

\* Any other state of the iterator
EvalNonEvaluable ==
  /\ apc = "iter"
  /\ state_stack # <<>>
  /\ Top(state_stack).k \notin {"Clause", "Literal", "Var", "AnonVar"}
  /\ state_stack' = Pop(state_stack)
  /\ Fail(NonEvaluableFunctor(".", 2))
  /\ UNCHANGED <<src, bindings, interm, interm_c, code, beside_arith>>

\* The iterator is exhausted: Ok((code, self.interm.pop()))
EvalFinish ==
  /\ apc = "iter"
  /\ state_stack = <<>>
  /\ apc' = "done"
  /\ aresult' = OkResult(code, IF interm = <<>> THEN <<>> ELSE <<Top(interm)>>)
  /\ interm' = IF interm = <<>> THEN <<>> ELSE Pop(interm)
  /\ UNCHANGED <<src, bindings, state_stack, interm_c, code, beside_arith>>

ANext ==
  \/ EvalStart
  \/ IterClauseDescend
  \/ EvalOp
  \/ EvalLiteral
  \/ EvalVar
  \/ EvalAnonVar
  \/ EvalNonEvaluable
  \/ EvalFinish

SpecArith == AInit /\ [][ANext]_vars

(***************************************************************************)
(* Properties of the arithmetic compiler.                                  *)
(***************************************************************************)

\* The number of operator nodes of an expression.
RECURSIVE OpCount(_)
OpCount(t) ==
  IF t.k # "Clause" THEN 0
  ELSE LET RECURSIVE Sum(_)
           Sum(i) == IF i = 0 THEN 0 ELSE OpCount(t.args[i]) + Sum(i - 1)
       IN 1 + Sum(Len(t.args))

\* The operand that stands for subterm x, whose instruction, if x is an
\* operator node, is c[hi].
OperandOf(x, c, hi) ==
  CASE x.k = "Clause" -> Interm(c[hi].t)
    [] x.k = "Literal" -> Top(push_literal(<<>>, x).interm)
    [] OTHER -> var_register(bindings, x).r

\* The instructions of t are c[hi - OpCount(t) + 1 .. hi]: those of its first
\* subterm, then those of its second, then its own at c[hi], which reads what
\* its subterms left.
RECURSIVE PostOrdered(_, _, _)
PostOrdered(t, c, hi) ==
  IF t.k # "Clause" THEN TRUE
  ELSE /\ hi \in 1 .. Len(c)
       /\ Len(t.args) \in {1, 2}
       /\ Len(t.args) = 1 =>
            /\ c[hi].ins = Variant(UnaryTable, t.name)
            /\ c[hi].a1 = OperandOf(t.args[1], c, hi - 1)
            /\ PostOrdered(t.args[1], c, hi - 1)
       /\ Len(t.args) = 2 =>
            LET lo == hi - 1 - OpCount(t.args[2])
            IN /\ c[hi].ins = Variant(BinaryTable, t.name)
               /\ c[hi].a2 = OperandOf(t.args[2], c, hi - 1)
               /\ c[hi].a1 = OperandOf(t.args[1], c, lo)
               /\ PostOrdered(t.args[2], c, hi - 1)
               /\ PostOrdered(t.args[1], c, lo)

Compiled == apc = "done" /\ aresult.ok

\* C9: eval emits the instructions in post-order, the instruction of every
\* operator node after those of its operand subterms, and exactly one
\* instruction per operator node; 2 + 3 * 4 gives mul 3, 4, @k then
\* add 2, @k, @k.
C9_PostOrderOnePerOperator ==
  /\ apc # "panic"
  /\ Compiled =>
       /\ Len(aresult.code) = OpCount(src)
       /\ PostOrdered(src, aresult.code, Len(aresult.code))
       /\ src = TestExpr =>
            \E k \in TargetInts :
               aresult.code =
                 <<Instr("Mul", Number("Fixnum", 3), Number("Fixnum", 4), k),
                   Instr("Add", Number("Fixnum", 2), Interm(k), k)>>

C9_Witness ==
  /\ Compiled
  /\ OpCount(src) = 3
  /\ Len(src.args) = 2
  /\ OpCount(src.args[1]) = 1 /\ OpCount(src.args[2]) = 1
  /\ src.args[1].name # src.args[2].name
  /\ Len(aresult.code) = 3

\* A binary operator has just been compiled to an instruction.
BinaryStep ==
  /\ Popped("Clause")
  /\ Len(Top(state_stack).term.args) = 2
  /\ Top(state_stack).child_num = 2
  /\ Len(code') = Len(code) + 1

\* C10: for a binary operator instr_from_clause pops two operands, and the
\* destination is the smaller-numbered Interm slot when both are Interm, the
\* one Interm slot when only one is, and the counter's value, which is then
\* incremented, when neither is.
C10_BinaryDestination ==
  [][BinaryStep =>
       LET a2 == Top(interm)
           a1 == Top(Pop(interm))
           i == Top(code')
       IN /\ i.a1 = a1 /\ i.a2 = a2
          /\ interm' = Append(Pop(Pop(interm)), Interm(i.t))
          /\ CASE a1.t = "Interm" /\ a2.t = "Interm" -> i.t = Min(a1.n, a2.n)
               [] a1.t = "Interm" /\ a2.t # "Interm" -> i.t = a1.n
               [] a1.t # "Interm" /\ a2.t = "Interm" -> i.t = a2.n
               [] OTHER -> i.t = interm_c /\ interm_c' = interm_c + 1]_vars

C10_Witness ==
  /\ apc = "iter"
  /\ code # <<>>
  /\ Top(code).a1.t = "Interm" /\ Top(code).a2.t = "Interm"
  /\ Top(code).a1.n < Top(code).a2.n
  /\ Top(code).t = Top(code).a1.n
  /\ interm = <<Interm(Top(code).t)>>

\* The variable eval has met has register number 0 and no binding to a slot
\* other than 0.
Unbound(t) ==
  /\ t.n = 0
  /\ \/ t.name \notin DOMAIN bindings
     \/ bindings[t.name].n = 0

\* C11: when eval meets a variable whose own register number is 0 and whose
\* binding in the allocator dictionary is absent or has slot 0, it returns
\* Err(UninstantiatedVar) and no instructions; otherwise it pushes Reg(r)
\* with r # 0 and goes on.
C11_UninstantiatedVar ==
  [][Popped("Var") =>
       IF Unbound(Top(state_stack).term)
       THEN /\ apc' = "done"
            /\ ~aresult'.ok
            /\ aresult'.err = UninstantiatedVar
            /\ aresult'.code = <<>>
            /\ interm' = interm
       ELSE /\ apc' = "iter"
            /\ Len(interm') = Len(interm) + 1
            /\ Pop(interm') = interm
            /\ Top(interm').t = "Reg"
            /\ Top(interm').n # 0]_vars

\* (2 + 3) * Y with Y bound to slot 0: an instruction was already pushed to
\* the local code when the error is returned.
C11_Witness ==
  /\ apc = "done"
  /\ aresult.err = UninstantiatedVar
  /\ aresult.code = <<>>
  /\ code # <<>>
  /\ src.k = "Clause" /\ Len(src.args) = 2
  /\ src.args[2].k = "Var" /\ src.args[2].n = 0
  /\ "Y" \in DOMAIN bindings /\ bindings["Y"].n = 0

\* An operator node that eval cannot compile: its name is not in the table
\* of its arity, or its arity is neither 1 nor 2.
NonEvaluableOp(t) ==
  /\ t.k = "Clause"
  /\ CASE Len(t.args) = 1 -> Variant(UnaryTable, t.name) = ""
       [] Len(t.args) = 2 -> Variant(BinaryTable, t.name) = ""
       [] OTHER -> TRUE

\* The operator nodes of an expression.
RECURSIVE OpNodes(_)
OpNodes(t) ==
  IF t.k # "Clause" THEN {}
  ELSE {t} \cup UNION {OpNodes(t.args[i]) : i \in DOMAIN t.args}

\* What a leaf fails with, NoError when it is evaluable.
LeafFailure(t) ==
  CASE t.k = "AnonVar" -> UninstantiatedVar
    [] t.k = "Var" -> IF Unbound(t) THEN UninstantiatedVar ELSE NoError
    [] t.k = "Literal" ->
         IF t.lit = "Atom" /\ t.name \notin {"e", "pi", "epsilon"}
         THEN NonEvaluableFunctor(t.name, 0) ELSE NoError
    [] OTHER -> NonEvaluableFunctor(".", 2)

\* The first failure of an expression in post-order, NoError when it has
\* none.
RECURSIVE FirstFailure(_)
FirstFailure(t) ==
  IF t.k # "Clause" THEN LeafFailure(t)
  ELSE LET failing == {i \in DOMAIN t.args : FirstFailure(t.args[i]) # NoError}
       IN IF failing # {}
          THEN FirstFailure(t.args[CHOOSE i \in failing :
                                     \A j \in failing : i <= j])
          ELSE IF NonEvaluableOp(t)
               THEN NonEvaluableFunctor(t.name, Len(t.args))
               ELSE NoError

MantissaBits == 3

FixnumBits == 5

I64Bits == 7

RECURSIVE Pow2(_)
Pow2(n) == IF n = 0 THEN 1 ELSE 2 * Pow2(n - 1)

Abs(n) == IF n < 0 THEN -n ELSE n

RECURSIVE Gcd(_, _)
Gcd(a, b) == IF b = 0 THEN a ELSE Gcd(b, a % b)

\* Fixnum::build_with_checked: UPPER_BOUND and LOWER_BOUND
FixnumMax == Pow2(FixnumBits - 1) - 1

FixnumMin == -Pow2(FixnumBits - 1)

I64Max == Pow2(I64Bits - 1) - 1

I64Min == -Pow2(I64Bits - 1)

\* Number: the value of a Fixnum, Integer, Rational or finite Float is
\* num/den in lowest terms with den > 0; cls tells a finite value from a NaN
\* and the two infinities of a Float.
Num(k, cls, num, den) == [k |-> k, cls |-> cls, num |-> num, den |-> den]

FixnumN(n) == Num("Fixnum", "fin", n, 1)

IntegerN(n) == Num("Integer", "fin", n, 1)

RationalN(n, d) ==
  LET g == Gcd(Abs(n), d) IN Num("Rational", "fin", n \div g, d \div g)

F64(n, d) ==
  LET g == Gcd(Abs(n), d) IN Num("Float", "fin", n \div g, d \div g)

NaN == Num("Float", "nan", 0, 1)

Infinity == Num("Float", "inf", 0, 1)

NegInfinity == Num("Float", "ninf", 0, 1)

\* a / d scaled by 2^-e, as a fraction.
Scaled(a, d, e) ==
  IF e >= 0 THEN [n |-> a, d |-> d * Pow2(e)] ELSE [n |-> a * Pow2(-e), d |-> d]

\* The binary exponent of a / d > 0: the e with
\* 2^(MantissaBits - 1) <= (a / d) / 2^e < 2^MantissaBits.
ExponentOf(a, d) ==
  CHOOSE e \in -(I64Bits + MantissaBits) .. I64Bits :
    LET s == Scaled(a, d, e)
    IN Pow2(MantissaBits - 1) * s.d <= s.n /\ s.n < Pow2(MantissaBits) * s.d

\* The f64 for num / d: the mantissa is cut to MantissaBits bits, to the
\* nearest value with ties to the even mantissa, or towards zero.
RoundToF64(num, d, nearest) ==
  IF num = 0 THEN F64(0, 1)
  ELSE LET a == Abs(num)
           e == ExponentOf(a, d)
           s == Scaled(a, d, e)
           q == s.n \div s.d
           r == s.n % s.d
           up == nearest /\ (2 * r > s.d \/ (2 * r = s.d /\ q % 2 = 1))
           m == IF up THEN q + 1 ELSE q
           sg == IF num < 0 THEN -1 ELSE 1
       IN IF e >= 0 THEN F64(sg * m * Pow2(e), 1) ELSE F64(sg * m, Pow2(-e))

\* n as f64, for an i64 n: to the nearest f64, ties to even.
as_f64(n) == RoundToF64(n, 1, TRUE)

\* Integer::to_f64 and Rational::to_f64: rounding towards zero.
to_f64(n, d) == RoundToF64(n, d, FALSE)

\* rnd_f, the conversion the mixed arms of eq and cmp make of the side that
\* is no Float.
rnd_f(n) ==
  CASE n.k = "Fixnum" -> as_f64(n.num)
    [] n.k = "Integer" -> to_f64(n.num, 1)
    [] n.k = "Rational" -> to_f64(n.num, n.den)
    [] OTHER -> n

IntCmp(x, y) == IF x < y THEN "Less" ELSE IF x = y THEN "Equal" ELSE "Greater"

\* The order of two finite values.
ExactCmp(a, b) == IntCmp(a.num * b.den, b.num * a.den)

\* OrderedFloat: a NaN equals a NaN and is greater than everything else.
FloatRank(f) ==
  CASE f.cls = "ninf" -> 0 [] f.cls = "fin" -> 1 [] f.cls = "inf" -> 2 [] OTHER -> 3

OrderedFloatCmp(f, g) ==
  IF FloatRank(f) # FloatRank(g) THEN IntCmp(FloatRank(f), FloatRank(g))
  ELSE IF f.cls = "fin" THEN ExactCmp(f, g) ELSE "Equal"

OrderedFloatEq(f, g) ==
  IF f.cls = "nan" THEN g.cls = "nan"
  ELSE f.cls = g.cls /\ (f.cls = "fin" => ExactCmp(f, g) = "Equal")

\* PartialEq for Number: an arm with a Float compares the f64 of the other
\* side with it, every other arm compares the exact values.
eq(a, b) ==
  IF a.k = "Float" \/ b.k = "Float"
  THEN OrderedFloatEq(rnd_f(a), rnd_f(b))
  ELSE ExactCmp(a, b) = "Equal"

\* Ord for Number
cmp(a, b) ==
  IF a.k = "Float" \/ b.k = "Float"
  THEN OrderedFloatCmp(rnd_f(a), rnd_f(b))
  ELSE ExactCmp(a, b)

\* f.floor()
floor(f) == IF f.cls = "fin" THEN F64(f.num \div f.den, 1) ELSE f

\* f as i64, for an f64 without fraction: NaN gives 0, and the value
\* saturates at the ends of i64.
as_i64(f) ==
  CASE f.cls = "nan" -> 0
    [] f.cls = "inf" -> I64Max
    [] f.cls = "ninf" -> I64Min
    [] OTHER -> IF f.num > I64Max THEN I64Max
                ELSE IF f.num < I64Min THEN I64Min ELSE f.num

\* fixnum!(Number, n, arena)
fixnum(n) == IF FixnumMin <= n /\ n <= FixnumMax THEN FixnumN(n) ELSE IntegerN(n)

\* rnd_i whose Integer and Fixnum arm goes down to the next integer.
rnd_i_strictly_below(n) ==
  CASE n.k \in {"Integer", "Fixnum"} -> Num(n.k, "fin", n.num - 1, 1)
    [] n.k = "Float" -> fixnum(as_i64(floor(n)))
    [] OTHER -> IntegerN(n.num \div n.den)

\* rnd_i
rnd_i(n) ==
  CASE n.k \in {"Integer", "Fixnum"} -> n
    [] n.k = "Float" -> fixnum(as_i64(floor(n)))
    [] OTHER -> IntegerN(n.num \div n.den)

\* binary_pow: the state of its loop.
PowState(n, power, oddand) == [n |-> n, power |-> power, oddand |-> oddand]

\* One pass of the loop that never multiplies oddand.
pow_step_no_oddand(st) == PowState(st.n * st.n, st.power \div 2, st.oddand)

\* One pass of the loop of binary_pow.
pow_step(st) ==
  PowState(st.n * st.n, st.power \div 2,
           IF st.power % 2 = 1 THEN st.oddand * st.n ELSE st.oddand)

(***************************************************************************)
(* The numbers the functions are applied to.                               *)
(***************************************************************************)

\* Largest base and largest magnitude of the power given to binary_pow.
MaxBase == 3

MaxPower == 5

\* The first integer an f64 cannot tell from its neighbour is one above
\* 2^MantissaBits.
Exact == Pow2(MantissaBits)

Numbers ==
  {FixnumN(n) : n \in {0, 3, -3, Exact, Exact + 1, FixnumMax}}
  \cup {IntegerN(n) : n \in {3, Exact + 1, FixnumMax + 2, -(FixnumMax + 2)}}
  \cup {RationalN(3, 1), RationalN(7, 2), RationalN(-7, 2), RationalN(1, 3),
        RationalN(Exact + 1, 1)}
  \cup {F64(3, 1), F64(7, 2), F64(-7, 2), F64(Exact, 1), F64(Exact + 2, 1),
        F64(FixnumMax + 1, 1), F64(I64Max + 1, 1), NaN, Infinity, NegInfinity}

NInit ==
  /\ npc = "start"
  /\ nout = <<>>
  /\ pow = <<>>
  /\ \/ /\ nop = "rnd_i"
        /\ nin \in {<<a>> : a \in Numbers}
        /\ pin = <<>>
     \/ /\ nop = "eq"
        /\ nin \in {<<a, b, c>> : a \in Numbers, b \in Numbers, c \in Numbers}
        /\ pin = <<>>
  /\ PIdle
  /\ AIdle
  /\ CIdle /\ DIdle /\ QIdle /\ MIdle

\* binary_pow(n, k) is called.
PowInit ==
  /\ nop = "binary_pow"
  /\ npc = "start"
  /\ nin = <<>>
  /\ nout = <<>>
  /\ pin \in [n : -MaxBase .. MaxBase, k : -MaxPower .. MaxPower]
  /\ pow = <<>>
  /\ PIdle
  /\ AIdle
  /\ CIdle /\ DIdle /\ QIdle /\ MIdle

\* rnd_i applied to the number, then to its own result.
RndI ==
  /\ nop = "rnd_i"
  /\ npc \in {"start", "once"}
  /\ nout' = Append(nout, rnd_i(IF npc = "start" THEN nin[1] ELSE nout[1]))
  /\ npc' = IF npc = "start" THEN "once" ELSE "done"
  /\ UNCHANGED <<nop, nin, pin, pow, beside_num>>

\* eq and cmp applied to every pair of the three numbers.
Compare ==
  /\ nop = "eq"
  /\ npc = "start"
  /\ nout' = [eq |-> [i \in 1 .. 3 |-> [j \in 1 .. 3 |-> eq(nin[i], nin[j])]],
              cmp |-> [i \in 1 .. 3 |-> [j \in 1 .. 3 |-> cmp(nin[i], nin[j])]]]
  /\ npc' = "done"
  /\ UNCHANGED <<nop, nin, pin, pow, beside_num>>

\* binary_pow up to its loop: power is |power|, and 1 is returned for 0.
PowStart ==
  /\ nop = "binary_pow"
  /\ npc = "start"
  /\ IF Abs(pin.k) = 0
     THEN npc' = "done" /\ nout' = <<1>> /\ UNCHANGED pow
     ELSE npc' = "loop" /\ pow' = PowState(pin.n, Abs(pin.k), 1) /\ UNCHANGED nout
  /\ UNCHANGED <<nop, nin, pin, beside_num>>

\* while power > 1 { .. }
PowLoop ==
  /\ npc = "loop"
  /\ pow.power > 1
  /\ pow' = pow_step(pow)
  /\ UNCHANGED <<nop, npc, nin, nout, pin, beside_num>>

\* n * oddand
PowReturn ==
  /\ npc = "loop"
  /\ ~(pow.power > 1)
  /\ npc' = "done"
  /\ nout' = <<pow.n * pow.oddand>>
  /\ UNCHANGED <<nop, nin, pin, pow, beside_num>>

NNext ==
  \/ RndI
  \/ Compare

SpecNum == NInit /\ [][NNext]_vars

PowNext ==
  \/ PowStart
  \/ PowLoop
  \/ PowReturn

\* binary_pow runs on while it has a step to take.
SpecPow == PowInit /\ [][PowNext]_vars /\ WF_vars(PowNext)

(***************************************************************************)
(* Properties of the Number functions.                                     *)
(***************************************************************************)

\* C13: rnd_i is idempotent: for every Number n, rnd_i(rnd_i(n)) is
\* rnd_i(n), the same representation of the same value.
C13_RndIIdempotent ==
  nop = "rnd_i" /\ npc = "done" =>
    /\ nout[2] = nout[1]
    /\ eq(nout[2], nout[1])
    /\ nout[1].k \in {"Fixnum", "Integer"}

\* 3.5 is floored to the Fixnum 3, which rnd_i leaves alone.
C13_Witness ==
  /\ nop = "rnd_i" /\ npc = "done"
  /\ nin[1].k = "Float" /\ nin[1].cls = "fin" /\ nin[1].den = 2
  /\ nout[1].k = "Fixnum"
  /\ nout[2] = nout[1]

\* Two numbers denote the same value.
SameValue(a, b) == a.cls = "fin" /\ b.cls = "fin" /\ ExactCmp(a, b) = "Equal"

\* C14: equality of Numbers is reflexive, symmetric and transitive over the
\* four representations, and numbers that denote the same value in different
\* representations are equal and compare Ordering::Equal.
C14_EqualityIsEquivalence ==
  nop = "eq" /\ npc = "done" =>
    /\ \A i \in 1 .. 3 : nout.eq[i][i]
    /\ \A i, j \in 1 .. 3 : nout.eq[i][j] => nout.eq[j][i]
    /\ \A i, j, k \in 1 .. 3 : nout.eq[i][j] /\ nout.eq[j][k] => nout.eq[i][k]
    /\ \A i, j \in 1 .. 3 :
         SameValue(nin[i], nin[j]) => nout.eq[i][j] /\ nout.cmp[i][j] = "Equal"

RECURSIVE Power(_, _)
Power(n, k) == IF k = 0 THEN 1 ELSE n * Power(n, k - 1)

\* C15: binary_pow(n, k) returns n raised to the absolute value of k for
\* every integer n and k, 1 when k is 0, and its loop terminates.
C15_BinaryPow ==
  /\ [](nop = "binary_pow" /\ npc = "done" =>
          /\ nout = <<Power(pin.n, Abs(pin.k))>>
          /\ pin.k = 0 => nout = <<1>>)
  /\ (nop = "binary_pow") ~> (npc = "done")

\* (-3)^5 asked with the power -5: two passes of the loop, oddand is n.
C15_Witness ==
  /\ nop = "binary_pow" /\ npc = "done"
  /\ pin.n = -3 /\ pin.k = -5
  /\ pow.oddand = -3
  /\ nout = <<-243>>

(***************************************************************************)
(* Code generation: BranchCodeStack, CodeGenSettings, add_call,            *)
(* compile_seq, compile_rule and compile_fact.                             *)
(***************************************************************************)

MAX_ARITY == 255

\* Instruction: the opcode, its offset, count or register number, and whether
\* it is the execute and the default variant of the opcode.
Ins(opcode, n) == [op |-> opcode, n |-> n, exec |-> FALSE, dflt |-> FALSE]

to_execute(i) == [i EXCEPT !.exec = TRUE]

to_default(i) == [i EXCEPT !.dflt = TRUE]

\* CodeGenSettings; global_clock_tick is whether a tick is there.
Settings(tick, ext, ncbt) ==
  [global_clock_tick |-> tick, is_extensible |-> ext, non_counted_bt |-> ncbt]

is_dynamic(s) == s.global_clock_tick

internal_try_me_else(s, offset) ==
  IF s.global_clock_tick THEN Ins("dynamic_internal_else_next", offset)
  ELSE Ins("try_me_else", offset)

try_me_else(s, offset) ==
  IF s.global_clock_tick THEN Ins("dynamic_else_next", offset)
  ELSE Ins("try_me_else", offset)

internal_retry_me_else(s, offset) ==
  IF s.global_clock_tick THEN Ins("dynamic_internal_else_next", offset)
  ELSE Ins("retry_me_else", offset)

retry_me_else(s, offset) ==
  IF s.global_clock_tick THEN Ins("dynamic_else_next", offset)
  ELSE IF s.non_counted_bt THEN Ins("default_retry_me_else", offset)
  ELSE Ins("retry_me_else", offset)

internal_trust_me(s) ==
  IF s.global_clock_tick THEN Ins("dynamic_internal_else_fail", 0)
  ELSE IF s.non_counted_bt THEN Ins("default_trust_me", 0)
  ELSE Ins("trust_me", 0)

trust_me(s) ==
  IF s.global_clock_tick THEN Ins("dynamic_else_fail", 0)
  ELSE IF s.non_counted_bt THEN Ins("default_trust_me", 0)
  ELSE Ins("trust_me", 0)

\* BranchCodeStack::add_new_branch_stack
add_new_branch_stack(stack) == Append(stack, <<>>)

\* BranchCodeStack::add_new_branch
add_new_branch(stack) ==
  LET s == IF stack = <<>> THEN add_new_branch_stack(stack) ELSE stack
  IN [s EXCEPT ![Len(s)] = Append(@, <<>>)]

\* The state of compile_seq: the clause's code, the BranchCodeStack, and of
\* the allocator in_tail_position and max_reg_allocated; err is the error
\* returned, "" while there is none.
SeqState(c, stack, in_tail, chunk_num, max_reg, err) ==
  [code |-> c, stack |-> stack, in_tail |-> in_tail, chunk_num |-> chunk_num,
   max_reg |-> max_reg, err |-> err]

\* branch_code_stack.code(code).extend(..): the last arm of the last frame,
\* the clause's code when there is none.
extend(st, instrs) ==
  IF st.stack # <<>> /\ st.stack[Len(st.stack)] # <<>>
  THEN LET f == Len(st.stack)
           a == Len(st.stack[f])
       IN [st EXCEPT !.stack[f][a] = @ \o instrs]
  ELSE [st EXCEPT !.code = @ \o instrs]

push_back(st, i) == extend(st, <<i>>)

\* The lengths of the arms of frames f .. Len(stack), each with 2 more.
RECURSIVE ArmSpan(_, _, _)
ArmSpan(stack, f, a) ==
  IF f > Len(stack) THEN 0
  ELSE IF a > Len(stack[f]) THEN ArmSpan(stack, f + 1, 1)
  ELSE Len(stack[f][a]) + 2 + ArmSpan(stack, f, a + 1)

\* The loop of push_jump_instrs from arm a of frame f on.
RECURSIVE JumpArms(_, _, _, _)
JumpArms(stack, f, a, jump_span) ==
  IF f > Len(stack) THEN stack
  ELSE IF a > Len(stack[f]) THEN JumpArms(stack, f + 1, 1, jump_span)
  ELSE LET span == jump_span - (Len(stack[f][a]) + 1)
       IN IF a = Len(stack[f]) THEN JumpArms(stack, f, a + 1, span)
          ELSE JumpArms([stack EXCEPT ![f][a] = Append(@, Ins("jmp_by_call", span))],
                        f, a + 1, span - 1)

\* push_jump_instrs without the subtraction of depth from the span.
push_jump_instrs_whole_span(stack, depth) ==
  LET lo == Len(stack) - depth + 1
  IN JumpArms(stack, lo, 1, ArmSpan(stack, lo, 1))

\* BranchCodeStack::push_jump_instrs
push_jump_instrs(stack, depth) ==
  LET lo == Len(stack) - depth + 1
  IN JumpArms(stack, lo, 1, ArmSpan(stack, lo, 1) - depth)

\* DebrayAllocator at a join, as push_missing_vars reads and writes it: of
\* each frame of branch_stack the hits in the order of their insertion, a
\* variable and a bit for each arm, and the safety sets; of each variable the
\* record with its counts and its register.
BranchFrame(hits, arms) ==
  [hits |-> hits, arms |-> arms, deep_safety |-> {}, shallow_safety |-> {}]

Hit(v, bits) == [v |-> v, bits |-> bits]

VarRecord(running_count, num_occurrences, allocation) ==
  [running_count |-> running_count, num_occurrences |-> num_occurrences,
   allocation |-> allocation]

\* BranchStack::add_branch_occurrence: the variable is hit in the current
\* arm of the frame, the last one at a join.
add_branch_occurrence(frame, v) ==
  LET set_last(h) == Hit(h.v, [h.bits EXCEPT ![Len(h.bits)] = TRUE])
  IN IF \E i \in 1 .. Len(frame.hits) : frame.hits[i].v = v
     THEN [frame EXCEPT !.hits = [i \in 1 .. Len(frame.hits) |->
                                    IF frame.hits[i].v = v THEN set_last(frame.hits[i])
                                    ELSE frame.hits[i]]]
     ELSE [frame EXCEPT !.hits = Append(frame.hits,
                                        Hit(v, [b \in 1 .. frame.arms |-> b = frame.arms]))]

\* missing_arms without the break at the last arm.
missing_arms_no_break(stack, idx, h) == {b \in 1 .. Len(h.bits) : ~h.bits[b]}

\* The arms of frame idx that get put_variable for a hit: those of unset bit,
\* the last arm of a frame under the last one left out.
missing_arms(stack, idx, h) ==
  {b \in 1 .. Len(h.bits) : ~h.bits[b] /\ ~(b = Len(h.bits) /\ idx # Len(stack))}

\* push_missing_vars: the body of the loop over the hits of frame idx.
miss_var(s, idx, h, depth) ==
  LET record == s.marker.records[h.v]
      all == \A b \in 1 .. Len(h.bits) : h.bits[b]
      zeros == missing_arms(s.stack, idx, h)
  IN IF record.running_count < record.num_occurrences
     THEN [stack |-> IF all THEN s.stack
                     ELSE [s.stack EXCEPT ![idx] =
                             [b \in 1 .. Len(s.stack[idx]) |->
                                IF b \in zeros
                                THEN Append(s.stack[idx][b],
                                            Ins("put_variable", record.allocation))
                                ELSE s.stack[idx][b]]],
           marker |-> IF all THEN s.marker
                      ELSE [s.marker EXCEPT
                              !.branch_stack[idx].deep_safety = @ \cup {h.v},
                              !.branch_stack[idx].shallow_safety = @ \cup {h.v}],
           propagated_var_nums |->
             IF idx > Len(s.stack) - depth + 1
                  /\ \A i \in 1 .. Len(s.propagated_var_nums) :
                       s.propagated_var_nums[i] # h.v
             THEN Append(s.propagated_var_nums, h.v)
             ELSE s.propagated_var_nums,
           subsumed_hits |-> s.subsumed_hits \cup {h.v}]
     ELSE s

\* push_missing_vars: the loop over the hits of frame idx from the i-th on.
RECURSIVE MissHits(_, _, _, _, _)
MissHits(s, idx, hits, i, depth) ==
  IF i > Len(hits) THEN s
  ELSE MissHits(miss_var(s, idx, hits[i], depth), idx, hits, i + 1, depth)

\* push_missing_vars: the drain of propagated_var_nums into frame idx - 1.
RECURSIVE Propagate(_, _)
Propagate(s, idx) ==
  IF s.propagated_var_nums = <<>> THEN s
  ELSE Propagate([s EXCEPT
                    !.marker.branch_stack[idx - 1] =
                      add_branch_occurrence(@, Head(s.propagated_var_nums)),
                    !.propagated_var_nums = Tail(@)],
                 idx)

\* push_missing_vars: the loop over the frames from idx down.
RECURSIVE MissFrames(_, _, _)
MissFrames(s, idx, depth) ==
  IF idx < Len(s.stack) - depth + 1 THEN s
  ELSE MissFrames(Propagate(MissHits(s, idx, s.marker.branch_stack[idx].hits, 1, depth),
                            idx),
                  idx - 1, depth)

\* BranchCodeStack::push_missing_vars
push_missing_vars(stack, depth, marker) ==
  MissFrames([stack |-> stack, marker |-> marker, propagated_var_nums |-> <<>>,
              subsumed_hits |-> {}],
             Len(stack), depth)

\* The allocator when arm number missing of the last frame is the one arm
\* that did not hit a variable still to occur, of register 1; no variable is
\* recorded when missing is 0.
MarkerOf(stack, missing) ==
  [branch_stack |->
     [f \in 1 .. Len(stack) |->
        BranchFrame(IF f = Len(stack) /\ missing \in 1 .. Len(stack[f])
                    THEN <<Hit(1, [b \in 1 .. Len(stack[f]) |-> b # missing])>>
                    ELSE <<>>,
                    Len(stack[f]))],
   records |-> <<VarRecord(1, 2, 1)>>]

\* The arms of one frame under offsets that leave out the choice instruction.
wrap_arms_offset_len(arms, settings) ==
  LET RECURSIVE Wrap(_)
      Wrap(idx) ==
        IF idx > Len(arms) THEN <<>>
        ELSE <<IF idx = 1 THEN Ins("try_me_else", Len(arms[idx]))
               ELSE IF idx < Len(arms) THEN retry_me_else(settings, Len(arms[idx]))
               ELSE trust_me(settings)>>
             \o arms[idx] \o Wrap(idx + 1)
  IN Wrap(1)

\* pop_branch, the inner loop: every arm of one frame after its choice
\* instruction.
wrap_arms(arms, settings) ==
  LET RECURSIVE Wrap(_)
      Wrap(idx) ==
        IF idx > Len(arms) THEN <<>>
        ELSE <<IF idx = 1 THEN Ins("try_me_else", Len(arms[idx]) + 1)
               ELSE IF idx < Len(arms) THEN retry_me_else(settings, Len(arms[idx]) + 1)
               ELSE trust_me(settings)>>
             \o arms[idx] \o Wrap(idx + 1)
  IN Wrap(1)

\* pop_branch, the outer loop: the frames from the last one down to lo.
RECURSIVE PopFrames(_, _, _, _, _)
PopFrames(stack, f, lo, combined_code, settings) ==
  IF f < lo THEN combined_code
  ELSE LET arms == stack[f]
       IN PopFrames(stack, f - 1, lo,
                    IF arms = <<>> THEN combined_code
                    ELSE wrap_arms([arms EXCEPT ![Len(arms)] = @ \o combined_code],
                                   settings),
                    settings)

\* BranchCodeStack::pop_branch
pop_branch(stack, depth, settings) ==
  [stack |-> SubSeq(stack, 1, Len(stack) - depth),
   code |-> PopFrames(stack, Len(stack), Len(stack) - depth + 1, <<>>, settings)]

\* The allocator has given out register r.
mark(st, r) == [st EXCEPT !.max_reg = Max(@, r)]

\* add_call without the deallocate.
add_call_no_deallocate(st, call_instr, call_policy, allocates) ==
  LET i == IF st.in_tail THEN to_execute(call_instr) ELSE call_instr
  IN push_back(st, IF call_policy = "Default" THEN to_default(i) ELSE i)

\* CodeGenerator::add_call
add_call(st, call_instr, call_policy, allocates) ==
  LET s1 == IF st.in_tail /\ allocates THEN push_back(st, Ins("deallocate", 0))
            ELSE st
      i == IF st.in_tail THEN to_execute(call_instr) ELSE call_instr
  IN push_back(s1, IF call_policy = "Default" THEN to_default(i) ELSE i)

\* QueryTerm: its kind, the register the allocator gives its variable or its
\* arguments (0 for none), the call policy and which way its compilation
\* goes.
QueryTerm(k, reg, policy, path) ==
  [k |-> k, reg |-> reg, policy |-> policy, path |-> path]

\* The end of the GlobalCut, LocalCut arms in tail position.
proceed_in_tail(st, allocates) ==
  IF st.in_tail
  THEN push_back(IF allocates THEN push_back(st, Ins("deallocate", 0)) ELSE st,
                 Ins("proceed", 0))
  ELSE st

\* compile_is_call
compile_is_call(st, t, allocates) ==
  CASE t.path = "fail" -> push_back(st, Ins("$fail", 0))
    [] t.path = "err" -> [st EXCEPT !.err = "ArithmeticError"]
    [] OTHER ->
         add_call(IF t.reg # 0 THEN push_back(mark(st, t.reg), Ins("put", t.reg))
                  ELSE st,
                  Ins("is", 1), t.policy, allocates)

\* compile_inlined
compile_inlined(st, t, allocates) ==
  CASE t.path = "err" -> [st EXCEPT !.err = "ArithmeticError"]
    [] t.path = "succeed" -> add_call(st, Ins("$succeed", 0), "Counted", allocates)
    [] t.path = "fail" -> add_call(st, Ins("$fail", 0), "Counted", allocates)
    [] OTHER -> add_call(mark(st, t.reg), Ins("var", t.reg), "Counted", allocates)

\* compile_query_line
compile_query_line(st, t, allocates) ==
  add_call(push_back(mark(st, t.reg), Ins("put", t.reg)), Ins("call", 0),
           t.policy, allocates)

\* compile_seq: the arms of the match on a term of a chunk.
query_term(st, t, allocates) ==
  CASE t.k = "GetLevel" -> push_back(mark(st, t.reg), Ins("get_level", t.reg))
    [] t.k = "GetCutPoint" ->
         push_back(mark(st, t.reg),
                   Ins(IF t.path = "prev" THEN "get_prev_level" ELSE "get_cut_point",
                       t.reg))
    [] t.k = "GlobalCut" ->
         proceed_in_tail(push_back(st, IF st.chunk_num = 0 THEN Ins("neck_cut", 0)
                                       ELSE Ins("cut", t.reg)),
                         allocates)
    [] t.k = "LocalCut" ->
         proceed_in_tail(push_back(st, Ins(IF t.path = "prev" THEN "cut_prev" ELSE "cut",
                                           t.reg)),
                         allocates)
    [] t.k = "Is" -> compile_is_call(st, t, allocates)
    [] t.k = "Inlined" -> compile_inlined(st, t, allocates)
    [] t.k = "Fail" -> push_back(st, Ins("$fail", 0))
    [] t.k = "Succeed" ->
         LET s1 == IF st.in_tail /\ allocates THEN push_back(st, Ins("deallocate", 0))
                   ELSE st
         IN push_back(s1, IF st.in_tail THEN to_execute(Ins("$succeed", 0))
                          ELSE Ins("$succeed", 0))
    [] OTHER ->
         LET s1 == compile_query_line(st, t, allocates)
         IN IF s1.max_reg > MAX_ARITY THEN [s1 EXCEPT !.err = "ExceededMaxArity"]
            ELSE s1

\* compile_seq, ClauseItem::Chunk: the terms from the idx-th on; tail is
\* clause_iter.in_tail_position().
RECURSIVE compile_chunk(_, _, _, _, _)
compile_chunk(st, terms, idx, tail, allocates) ==
  IF idx > Len(terms) THEN [st EXCEPT !.chunk_num = @ + 1, !.in_tail = FALSE]
  ELSE LET s0 == IF idx < Len(terms) THEN st ELSE [st EXCEPT !.in_tail = tail]
           s1 == query_term(s0, terms[idx], allocates)
       IN IF s1.err # "" THEN s1
          ELSE compile_chunk(s1, terms, idx + 1, tail, allocates)

\* ClauseItem
Item(k, terms, n, tail, missing) ==
  [k |-> k, terms |-> terms, n |-> n, tail |-> tail, missing |-> missing]

\* compile_seq, ClauseItem::BranchEnd(depth)
branch_end(st, item, non_counted_bt) ==
  LET stack == IF ~item.tail
               THEN push_jump_instrs(push_missing_vars(st.stack, item.n,
                                                      MarkerOf(st.stack, item.missing)).stack,
                                    item.n)
               ELSE st.stack
      popped == pop_branch(stack, item.n, Settings(FALSE, FALSE, non_counted_bt))
  IN extend([st EXCEPT !.stack = popped.stack], popped.code)

\* compile_seq: one pass of the loop over the ClauseItems.
seq_item(st, item, allocates, non_counted_bt) ==
  CASE item.k = "Chunk" -> compile_chunk(st, item.terms, 1, item.tail, allocates)
    [] item.k = "FirstBranch" ->
         [st EXCEPT !.stack = add_new_branch(add_new_branch_stack(st.stack))]
    [] item.k = "NextBranch" -> [st EXCEPT !.stack = add_new_branch(st.stack)]
    [] OTHER -> branch_end(st, item, non_counted_bt)

\* compile_seq after the loop
seq_finish(st, allocates, num_perm_vars) ==
  IF allocates THEN [st EXCEPT !.code = <<Ins("allocate", num_perm_vars)>> \o @]
  ELSE st

\* Result<Code, CompilationError>
Ok(c) == [ok |-> TRUE, code |-> c, err |-> ""]

Err(e) == [ok |-> FALSE, code |-> <<>>, err |-> e]

\* compile_target for the head of a clause: the allocator gives out registers
\* up to head, and the head's instruction names the highest.
compile_head(c) ==
  SeqState(IF c.head = 0 THEN <<>> ELSE <<Ins("get", c.head)>>, <<>>, FALSE, 0,
           c.head, IF c.head > MAX_ARITY THEN "ExceededMaxArity" ELSE "")

\* compile_fact
compile_fact(c) ==
  LET st == compile_head(c)
  IN IF st.err # "" THEN Err(st.err) ELSE Ok(Append(st.code, Ins("proceed", 0)))

\* compile_seq: the loop over the ClauseItems.
RECURSIVE compile_seq(_, _, _, _)
compile_seq(st, its, allocates, non_counted_bt) ==
  IF st.err # "" \/ its = <<>> THEN st
  ELSE compile_seq(seq_item(st, Head(its), allocates, non_counted_bt), Tail(its),
                   allocates, non_counted_bt)

\* compile_rule: its result after compile_seq left st.
rule_result(c, st) ==
  IF st.err # "" THEN Err(st.err)
  ELSE Ok(seq_finish(st, c.allocates, c.perms).code)

\* compile_rule
compile_rule(c, non_counted_bt) ==
  rule_result(c, compile_seq(compile_head(c), c.items, c.allocates, non_counted_bt))

(***************************************************************************)
(* The clauses compiled.                                                   *)
(***************************************************************************)

\* ClauseIterator: a body is a sequence of chunks and branches, a branch has
\* two or more arms, each a body.
Ch(terms) == [e |-> "chunk", terms |-> terms, arms |-> <<>>, missing |-> 0]

Br(arms, missing) == [e |-> "branch", terms |-> <<>>, arms |-> arms, missing |-> missing]

\* The ClauseItems of a body; tail is whether nothing of the clause follows
\* the body. A branch that ends the last arm of a branch ends with it, in one
\* BranchEnd of their depth.
RECURSIVE Flatten(_, _)
RECURSIVE FlattenBranch(_, _)
Flatten(body, tail) ==
  IF body = <<>> THEN <<>>
  ELSE LET el == Head(body)
           t == tail /\ Tail(body) = <<>>
       IN (IF el.e = "chunk" THEN <<Item("Chunk", el.terms, 0, t, 0)>>
           ELSE FlattenBranch(el, t))
          \o Flatten(Tail(body), tail)

FlattenBranch(el, t) ==
  LET n == Len(el.arms)
      RECURSIVE Arms(_)
      Arms(i) ==
        IF i > n THEN <<>>
        ELSE (IF i = 1 THEN <<Item("FirstBranch", <<>>, n, t, 0)>>
              ELSE <<Item("NextBranch", <<>>, 0, t, 0)>>)
             \o Flatten(el.arms[i], t) \o Arms(i + 1)
      all == Arms(1)
      last == all[Len(all)]
  IN IF last.k = "BranchEnd"
     THEN SubSeq(all, 1, Len(all) - 1)
          \o <<Item("BranchEnd", <<>>, last.n + 1, t, el.missing)>>
     ELSE Append(all, Item("BranchEnd", <<>>, 1, t, el.missing))

\* PredicateClause: a fact or a rule, the highest register its head takes (0
\* when the head compiles to nothing), the index of its first instantiated
\* argument (-1 when it has none), var_data.allocates, the number of
\* permanent variables and the ClauseItems of its body.
PredicateClause(fact, head, inst, allocates, perms, body) ==
  [fact |-> fact, head |-> head, inst |-> inst, allocates |-> allocates,
   perms |-> perms, items |-> Flatten(body, TRUE)]

Call(r) == QueryTerm("Clause", r, "Counted", "")

CallDefault(r) == QueryTerm("Clause", r, "Default", "")

VarTest(r) == QueryTerm("Inlined", r, "Counted", "var")

GlobalCut == QueryTerm("GlobalCut", 1, "Counted", "")

\* Chunks that end with a call.
CallChunks ==
  {Ch(<<Call(2)>>), Ch(<<CallDefault(MAX_ARITY)>>), Ch(<<Call(MAX_ARITY + 1)>>),
   Ch(<<VarTest(1), QueryTerm("Is", 2, "Counted", "var"), Call(2)>>),
   Ch(<<QueryTerm("GetLevel", 1, "Counted", ""), VarTest(MAX_ARITY + 1), Call(1)>>),
   Ch(<<GlobalCut, QueryTerm("Fail", 0, "Counted", ""), Call(1)>>)}

\* Chunks without a call, which end a body.
LastChunks ==
  {Ch(<<GlobalCut>>), Ch(<<QueryTerm("LocalCut", 1, "Counted", "prev")>>),
   Ch(<<QueryTerm("Succeed", 0, "Counted", "")>>),
   Ch(<<QueryTerm("Is", 0, "Default", "num")>>),
   Ch(<<QueryTerm("Is", 0, "Counted", "fail")>>),
   Ch(<<QueryTerm("Is", 0, "Counted", "err")>>),
   Ch(<<QueryTerm("GetCutPoint", 1, "Counted", "prev"),
        QueryTerm("Inlined", 0, "Counted", "succeed")>>),
   Ch(<<VarTest(1), VarTest(MAX_ARITY + 1)>>)}

\* Disjunctions: two arms, three arms, and one whose last arm ends with a
\* disjunction.
Branches ==
  {Br(<<<<Ch(<<Call(1)>>)>>, <<Ch(<<Call(2)>>)>>>>, m) : m \in {0, 1}}
  \cup {Br(<<<<Ch(<<Call(1)>>)>>, <<Ch(<<GlobalCut>>)>>, <<Ch(<<VarTest(2)>>)>>>>, 2),
        Br(<<<<Ch(<<Call(1)>>), Ch(<<Call(2)>>)>>,
             <<Ch(<<Call(1)>>),
               Br(<<<<Ch(<<QueryTerm("Succeed", 0, "Counted", "")>>)>>,
                    <<Ch(<<Call(3)>>)>>>>, 0)>>>>, 0),
        Br(<<<<Br(<<<<Ch(<<Call(1)>>)>>, <<Ch(<<Call(2)>>)>>>>, 0), Ch(<<Call(3)>>)>>,
             <<Ch(<<Call(4)>>)>>>>, 0)}

\* Most chunks and branches of a body at its top level.
MaxElements == 2

\* The bodies: only the last element may be a chunk without a call.
Bodies ==
  UNION {{b \in [1 .. n -> CallChunks \cup LastChunks \cup Branches] :
            \A i \in 1 .. (n - 1) : b[i] \notin LastChunks} :
         n \in 1 .. MaxElements}

HeadRegs == {0, 1, MAX_ARITY, MAX_ARITY + 1}

Rules ==
  {PredicateClause(FALSE, h, -1, a, IF a THEN 1 ELSE 0, b) :
     h \in HeadRegs, a \in BOOLEAN, b \in Bodies}

Facts == {PredicateClause(TRUE, h, -1, FALSE, 0, <<>>) : h \in HeadRegs}

(***************************************************************************)
(* compile_fact and compile_rule, one ClauseItem of compile_seq at a time. *)
(***************************************************************************)

CInit ==
  /\ clause \in [c : Rules \cup Facts, non_counted_bt : BOOLEAN]
  /\ cpc = "start"
  /\ citems = <<>>
  /\ cst = <<>>
  /\ cres = <<>>
  /\ PIdle /\ AIdle /\ NIdle /\ DIdle /\ QIdle /\ MIdle

\* The ? and the return Err(..) of compile_rule and compile_seq.
Raise(st) ==
  /\ cpc' = "done"
  /\ cres' = Err(st.err)
  /\ cst' = st
  /\ UNCHANGED citems

CompileFact ==
  /\ cpc = "start"
  /\ clause.c.fact
  /\ cpc' = "done"
  /\ cres' = compile_fact(clause.c)
  /\ cst' = compile_head(clause.c)
  /\ UNCHANGED <<clause, citems, beside_clause>>

\* compile_rule up to compile_seq
RuleHead ==
  /\ cpc = "start"
  /\ ~clause.c.fact
  /\ LET st == compile_head(clause.c)
     IN IF st.err # "" THEN Raise(st)
        ELSE /\ cpc' = "seq"
             /\ cst' = st
             /\ citems' = clause.c.items
             /\ UNCHANGED cres
  /\ UNCHANGED <<clause, beside_clause>>

SeqItem(k) ==
  /\ cpc = "seq"
  /\ citems # <<>>
  /\ Head(citems).k = k
  /\ LET st == seq_item(cst, Head(citems), clause.c.allocates, clause.non_counted_bt)
     IN IF st.err # "" THEN Raise(st)
        ELSE /\ cst' = st
             /\ citems' = Tail(citems)
             /\ UNCHANGED <<cpc, cres>>
  /\ UNCHANGED <<clause, beside_clause>>

SeqChunk == SeqItem("Chunk")

SeqFirstBranch == SeqItem("FirstBranch")

SeqNextBranch == SeqItem("NextBranch")

SeqBranchEnd == SeqItem("BranchEnd")

\* compile_seq after its loop, and the return of compile_rule
SeqFinish ==
  /\ cpc = "seq"
  /\ citems = <<>>
  /\ cpc' = "done"
  /\ cst' = seq_finish(cst, clause.c.allocates, clause.c.perms)
  /\ cres' = Ok(cst'.code)
  /\ UNCHANGED <<clause, citems, beside_clause>>

CNext ==
  \/ CompileFact
  \/ RuleHead
  \/ SeqChunk
  \/ SeqFirstBranch
  \/ SeqNextBranch
  \/ SeqBranchEnd
  \/ SeqFinish

SpecClause == CInit /\ [][CNext]_vars

\* An instruction that leaves the clause in tail position: a call made as an
\* execute, or proceed.
TailExit(i) == i.exec \/ i.op = "proceed"

\* C16: the code compile_rule returns has allocate if and only if
\* var_data.allocates holds; then allocate is its first instruction and no
\* other, and every execute, every proceed after a cut and every $succeed in
\* tail position comes right after a deallocate.
C16_AllocateDeallocate ==
  (cpc = "done" /\ ~clause.c.fact /\ cres.ok) =>
    LET c == cres.code
    IN /\ (\E p \in 1 .. Len(c) : c[p].op = "allocate") <=> clause.c.allocates
       /\ clause.c.allocates =>
            /\ c[1].op = "allocate"
            /\ \A p \in 2 .. Len(c) : c[p].op # "allocate"
            /\ \A p \in 1 .. Len(c) :
                 TailExit(c[p]) => p > 1 /\ c[p - 1].op = "deallocate"

C16_Witness ==
  /\ cpc = "done" /\ ~clause.c.fact /\ cres.ok /\ clause.c.allocates
  /\ \E p, q, r \in 1 .. Len(cres.code) :
       /\ cres.code[p].op = "proceed" /\ cres.code[p - 1].op = "deallocate"
       /\ cres.code[p - 2].op = "cut"
       /\ cres.code[q].op = "call" /\ cres.code[q].exec
       /\ cres.code[r].op = "try_me_else"

\* The opcodes of the model whose operand is a register number.
RegisterOps ==
  {"get", "put", "put_variable", "var", "is", "get_level", "get_cut_point",
   "get_prev_level", "cut", "cut_prev"}

\* C18: when compile_fact or compile_rule returns Ok, every register number
\* in the code is from 1 to MAX_ARITY, and when a register number above
\* MAX_ARITY was given out while compiling the clause, the result is
\* Err(ExceededMaxArity).
C18_RegistersWithinMaxArity ==
  cpc = "done" =>
    /\ cres.ok =>
         \A p \in 1 .. Len(cres.code) :
           cres.code[p].op \in RegisterOps => cres.code[p].n \in 1 .. MAX_ARITY
    /\ cst.max_reg > MAX_ARITY => ~cres.ok /\ cres.err = "ExceededMaxArity"

(***************************************************************************)
(* split_predicate, compile_pred_subseq and compile_predicate.             *)
(***************************************************************************)

ClauseSpan(left, right, instantiated_arg_index) ==
  [left |-> left, right |-> right, instantiated_arg_index |-> instantiated_arg_index]

\* split_predicate with a change of the index that does not close the run.
split_step_one_run(clauses, right, s) ==
  LET k == clauses[right + 1].inst
  IN IF k >= 0
     THEN IF s.optimal_index # k THEN [s EXCEPT !.optimal_index = k] ELSE s
     ELSE [subseqs |->
             Append(IF s.left < right
                    THEN Append(s.subseqs, ClauseSpan(s.left, right, s.optimal_index))
                    ELSE s.subseqs,
                    ClauseSpan(right, right + 1, 0)),
           left |-> right + 1, optimal_index |-> 0]

\* split_predicate: the body of the loop for the clause of index right; s
\* holds subseqs, left and optimal_index, and inst is the index of the first
\* argument of the clause that is not a variable, -1 when there is none.
split_step(clauses, right, s) ==
  LET k == clauses[right + 1].inst
  IN IF k >= 0
     THEN IF s.optimal_index # k
          THEN IF s.left >= right THEN [s EXCEPT !.optimal_index = k]
               ELSE [subseqs |-> Append(s.subseqs,
                                        ClauseSpan(s.left, right, s.optimal_index)),
                     left |-> right, optimal_index |-> k]
          ELSE s
     ELSE [subseqs |->
             Append(IF s.left < right
                    THEN Append(s.subseqs, ClauseSpan(s.left, right, s.optimal_index))
                    ELSE s.subseqs,
                    ClauseSpan(right, right + 1, 0)),
           left |-> right + 1, optimal_index |-> 0]

\* split_predicate: the loop from the clause of index right on, and the push
\* after it.
RECURSIVE SplitFrom(_, _, _)
SplitFrom(clauses, right, s) ==
  IF right >= Len(clauses)
  THEN IF s.left < Len(clauses)
       THEN Append(s.subseqs, ClauseSpan(s.left, Len(clauses), s.optimal_index))
       ELSE s.subseqs
  ELSE SplitFrom(clauses, right + 1, split_step(clauses, right, s))

\* split_predicate with left starting at 1.
split_predicate_from_second(clauses) ==
  SplitFrom(clauses, 0, [subseqs |-> <<>>, left |-> 1, optimal_index |-> 0])

split_predicate(clauses) ==
  SplitFrom(clauses, 0, [subseqs |-> <<>>, left |-> 0, optimal_index |-> 0])

\* compile_pred_subseq: the match on the clause.
compile_clause(c, settings) ==
  IF c.fact THEN compile_fact(c) ELSE compile_rule(c, settings.non_counted_bt)

\* compile_pred_subseq: the code after the i-th of clauses_len clauses, of
\* code clause_code, got its choice instruction.
push_choice(c, i, clauses_len, clause_code, settings) ==
  IF clauses_len > 1
  THEN Append(c, IF i = 1
                 THEN internal_try_me_else(settings, Len(clause_code) + 1)
                 ELSE IF i = clauses_len THEN internal_trust_me(settings)
                 ELSE internal_retry_me_else(settings, Len(clause_code) + 1))
  ELSE IF settings.is_extensible THEN <<internal_try_me_else(settings, 0)>> \o c
  ELSE c

\* compile_pred_subseq: the loop from the i-th clause on, whose compilation
\* gave r.
RECURSIVE SubseqFrom(_, _, _, _)
RECURSIVE SubseqPass(_, _, _, _, _)
SubseqFrom(clauses, i, c, settings) ==
  IF i > Len(clauses) THEN Ok(c)
  ELSE SubseqPass(clauses, i, c, settings, compile_clause(clauses[i], settings))

SubseqPass(clauses, i, c, settings, r) ==
  IF ~r.ok THEN r
  ELSE SubseqFrom(clauses, i + 1,
                  push_choice(c, i, Len(clauses), r.code, settings) \o r.code,
                  settings)

\* CodeOffsets::compute_indices gives indexing code when a clause of the run
\* has an instantiated argument at the index.
index_code_is_empty(clauses, optimal_index, settings) ==
  ~ /\ Len(clauses) > 1 \/ settings.is_extensible
    /\ \E i \in 1 .. Len(clauses) : clauses[i].inst = optimal_index

\* compile_pred_subseq after its loop gave r.
index_subseq(clauses, optimal_index, settings, r) ==
  IF ~r.ok THEN r
  ELSE IF ~index_code_is_empty(clauses, optimal_index, settings)
  THEN Ok(<<Ins("indexing_code", 0)>> \o r.code)
  ELSE IF Len(clauses) = 1 /\ settings.is_extensible THEN Ok(Tail(r.code))
  ELSE r

compile_pred_subseq(clauses, optimal_index, settings) ==
  index_subseq(clauses, optimal_index, settings, SubseqFrom(clauses, 1, <<>>, settings))

\* compile_predicate without the stub of an extensible predicate.
outer_choice_no_stub(settings, multi_seq, span, clauses_len, segment_len) ==
  IF multi_seq
  THEN <<IF span.left = 0 THEN try_me_else(settings, segment_len + 1)
         ELSE IF span.right = clauses_len THEN trust_me(settings)
         ELSE retry_me_else(settings, segment_len + 1)>>
  ELSE <<>>

\* compile_predicate: what is pushed in front of a code segment.
outer_choice(settings, multi_seq, span, clauses_len, segment_len) ==
  IF multi_seq
  THEN <<IF span.left = 0 THEN try_me_else(settings, segment_len + 1)
         ELSE IF span.right = clauses_len THEN trust_me(settings)
         ELSE retry_me_else(settings, segment_len + 1)>>
  ELSE IF settings.is_extensible THEN <<try_me_else(settings, 0)>>
  ELSE <<>>

\* Most clauses of a predicate.
MaxClauses == 3

TwoArms == Br(<<<<Ch(<<Call(1)>>)>>, <<Ch(<<Call(2)>>)>>>>, 1)

NestedArms ==
  Br(<<<<Ch(<<Call(1)>>)>>, <<Ch(<<GlobalCut>>)>>,
       <<Ch(<<Call(1)>>), Br(<<<<Ch(<<VarTest(2)>>)>>, <<Ch(<<Call(3)>>)>>>>, 0)>>>>, 0)

PredClauses ==
  {PredicateClause(TRUE, 1, -1, FALSE, 0, <<>>),
   PredicateClause(TRUE, 1, 0, FALSE, 0, <<>>),
   PredicateClause(TRUE, 2, 1, FALSE, 0, <<>>),
   PredicateClause(TRUE, MAX_ARITY + 1, 0, FALSE, 0, <<>>),
   PredicateClause(FALSE, 1, 0, TRUE, 1, <<TwoArms, Ch(<<Call(3)>>)>>),
   PredicateClause(FALSE, 0, -1, FALSE, 0, <<NestedArms>>)}

Predicates == UNION {[1 .. n -> PredClauses] : n \in 1 .. MaxClauses}

DInit ==
  /\ \E cs \in Predicates, t, e, n \in BOOLEAN :
       pred = [clauses |-> cs, settings |-> Settings(t, e, n)]
  /\ dpc = "start"
  /\ spans = <<>>
  /\ dcode = <<>>
  /\ dres = <<>>
  /\ PIdle /\ AIdle /\ NIdle /\ CIdle /\ QIdle /\ MIdle

\* compile_predicate up to its loop
PredSplit ==
  /\ dpc = "start"
  /\ dpc' = "loop"
  /\ spans' = split_predicate(pred.clauses)
  /\ UNCHANGED <<pred, dcode, dres, beside_pred>>

\* compile_predicate: the rest of a pass once compile_pred_subseq gave r for
\* the span.
PushSegment(span, r) ==
  IF ~r.ok
  THEN /\ dpc' = "done"
       /\ dres' = r
       /\ UNCHANGED <<spans, dcode>>
  ELSE /\ dcode' = dcode
                   \o outer_choice(pred.settings,
                                   Len(split_predicate(pred.clauses)) > 1, span,
                                   Len(pred.clauses), Len(r.code))
                   \o r.code
       /\ spans' = Tail(spans)
       /\ UNCHANGED <<dpc, dres>>

\* compile_predicate: one pass of the loop over the spans.
PredSubseq ==
  /\ dpc = "loop"
  /\ spans # <<>>
  /\ PushSegment(Head(spans),
                 compile_pred_subseq(SubSeq(pred.clauses, Head(spans).left + 1,
                                            Head(spans).right),
                                     Head(spans).instantiated_arg_index,
                                     pred.settings))
  /\ UNCHANGED <<pred, beside_pred>>

PredReturn ==
  /\ dpc = "loop"
  /\ spans = <<>>
  /\ dpc' = "done"
  /\ dres' = Ok(dcode)
  /\ UNCHANGED <<pred, spans, dcode, beside_pred>>

DNext ==
  \/ PredSplit
  \/ PredSubseq
  \/ PredReturn

SpecPred == DInit /\ [][DNext]_vars

IsTry(i) == i.op = "try_me_else"

IsRetry(i) == i.op \in {"retry_me_else", "default_retry_me_else"}

IsTrust(i) == i.op \in {"trust_me", "default_trust_me"}

\* Following the offsets from position p of c reaches a trust_me in at most
\* fuel steps.
RECURSIVE ReachesTrust(_, _, _)
ReachesTrust(c, p, fuel) ==
  /\ p \in 1 .. Len(c)
  /\ \/ IsTrust(c[p])
     \/ /\ fuel > 0
        /\ IsTry(c[p]) \/ IsRetry(c[p])
        /\ c[p].n > 0
        /\ ReachesTrust(c, p + c[p].n, fuel - 1)

\* C17: in the code of compile_predicate under static settings that are not
\* extensible, which holds the code of pop_branch for the disjunctions of
\* its clauses, a try_me_else or retry_me_else with offset k at position p
\* has a retry_me_else or a trust_me (or the default variant of these) at
\* position p + k, and the offsets from a try_me_else lead to a trust_me.
C17_ChoiceChainsClosed ==
  (dpc = "done" /\ dres.ok /\ ~is_dynamic(pred.settings)
     /\ ~pred.settings.is_extensible) =>
    LET c == dres.code
    IN \A p \in 1 .. Len(c) :
         /\ (IsTry(c[p]) \/ IsRetry(c[p])) =>
              /\ p + c[p].n \in 1 .. Len(c)
              /\ IsRetry(c[p + c[p].n]) \/ IsTrust(c[p + c[p].n])
         /\ IsTry(c[p]) => ReachesTrust(c, p, Len(c))

C17_Witness ==
  /\ dpc = "done" /\ dres.ok /\ ~is_dynamic(pred.settings)
  /\ ~pred.settings.is_extensible
  /\ Len(pred.clauses) = 3
  /\ Len(split_predicate(pred.clauses)) = 2
  /\ \E i \in 1 .. 3 : pred.clauses[i].items # <<>>
  /\ Cardinality({p \in 1 .. Len(dres.code) : IsTry(dres.code[p])}) >= 3
  /\ \E p \in 1 .. Len(dres.code) : dres.code[p].op = "indexing_code"

\* C19: the code compile_predicate returns for one clause under extensible
\* settings starts with a choice instruction of offset 0, try_me_else or its
\* dynamic variant, and the code of the clause comes after it.
C19_ExtensibleStub ==
  (dpc = "done" /\ dres.ok /\ pred.settings.is_extensible
     /\ Len(pred.clauses) = 1) =>
    LET c == dres.code
        cl == compile_clause(pred.clauses[1], pred.settings).code
    IN /\ Len(c) > Len(cl)
       /\ c[1] = try_me_else(pred.settings, 0)
       /\ c[1].op \in {"try_me_else", "dynamic_else_next"}
       /\ c[1].n = 0
       /\ SubSeq(c, Len(c) - Len(cl) + 1, Len(c)) = cl

C19_Witness ==
  /\ dpc = "done" /\ dres.ok /\ pred.settings.is_extensible
  /\ Len(pred.clauses) = 1
  /\ dres.code[2].op = "indexing_code"
  /\ dres.code[3].op = "dynamic_internal_else_next"
  /\ Len(dres.code) > 4

(***************************************************************************)
(* QueryResult::from(Vec<QueryResultLine>)                                 *)
(***************************************************************************)

\* QueryResultLine
LineTrue == [k |-> "True", bindings |-> <<>>]

LineFalse == [k |-> "False", bindings |-> <<>>]

Match(b) == [k |-> "Match", bindings |-> b]

IsMatch(l) == l.k = "Match"

\* QueryMatch::from(BTreeMap<String, Value>)
QueryMatch(b) == [bindings |-> b]

\* QueryResult
ResultTrue == [k |-> "True", matches |-> <<>>]

ResultFalse == [k |-> "False", matches |-> <<>>]

Matches(ms) == [k |-> "Matches", matches |-> ms]

\* from with the test for a line of true before the one for the matches.
from_true_over_matches(query_result_lines) ==
  IF \E i \in 1 .. Len(query_result_lines) : query_result_lines[i] = LineTrue
  THEN ResultTrue
  ELSE LET ms == SelectSeq(query_result_lines, IsMatch)
       IN IF ms # <<>> THEN Matches([i \in 1 .. Len(ms) |-> QueryMatch(ms[i].bindings)])
          ELSE ResultFalse

\* impl From<Vec<QueryResultLine>> for QueryResult
from(query_result_lines) ==
  IF Len(query_result_lines) = 1 /\ query_result_lines[1] = LineTrue THEN ResultTrue
  ELSE IF Len(query_result_lines) = 1 /\ query_result_lines[1] = LineFalse
  THEN ResultFalse
  ELSE IF /\ \E i \in 1 .. Len(query_result_lines) : query_result_lines[i] = LineTrue
          /\ ~\E i \in 1 .. Len(query_result_lines) : IsMatch(query_result_lines[i])
  THEN ResultTrue
  ELSE LET filtered == SelectSeq(query_result_lines, IsMatch)
           all_matches == [i \in 1 .. Len(filtered) |-> QueryMatch(filtered[i].bindings)]
       IN IF all_matches # <<>> THEN Matches(all_matches) ELSE ResultFalse

\* Most lines of a query's answer.
MaxLines == 3

ResultLines == {LineTrue, LineFalse, Match([X |-> "a"]), Match([X |-> "b"])}

QInit ==
  /\ lines \in UNION {[1 .. n -> ResultLines] : n \in 0 .. MaxLines}
  /\ qpc = "start"
  /\ qres = <<>>
  /\ PIdle /\ AIdle /\ NIdle /\ CIdle /\ DIdle /\ MIdle

From ==
  /\ qpc = "start"
  /\ qpc' = "done"
  /\ qres' = from(lines)
  /\ UNCHANGED <<lines, beside_results>>

QNext == From

SpecResults == QInit /\ [][QNext]_vars

\* The matches of the lines, in the order of the lines.
RECURSIVE MatchesOf(_)
MatchesOf(ls) ==
  IF ls = <<>> THEN <<>>
  ELSE (IF Head(ls).k = "Match" THEN <<QueryMatch(Head(ls).bindings)>> ELSE <<>>)
       \o MatchesOf(Tail(ls))

\* C20: from gives Matches of all the Match lines in their order when there
\* is one, otherwise True when there is a True line, otherwise False, as for
\* no lines at all.
C20_QueryResultFrom ==
  qpc = "done" =>
    qres = IF \E i \in 1 .. Len(lines) : lines[i].k = "Match"
           THEN Matches(MatchesOf(lines))
           ELSE IF \E i \in 1 .. Len(lines) : lines[i].k = "True" THEN ResultTrue
           ELSE ResultFalse

C20_Witness ==
  /\ qpc = "done"
  /\ lines = <<Match([X |-> "b"]), LineTrue, Match([X |-> "a"])>>
  /\ qres = Matches(<<QueryMatch([X |-> "b"]), QueryMatch([X |-> "a"])>>)

(***************************************************************************)
(* Fixnum: build_with, build_with_checked, get_num and neg.                *)
(***************************************************************************)

\* The i64 of I64Bits bits whose two's complement is u.
ToI64(u) == IF u >= Pow2(I64Bits - 1) THEN u - Pow2(I64Bits) ELSE u

\* Fixnum::build_with: the num field keeps the low FixnumBits bits of the
\* two's complement of num.
build_with(num) == [num |-> num % Pow2(FixnumBits), tag |-> "Fixnum"]

\* Fixnum::build_with_checked
build_with_checked(num) ==
  IF FixnumMin <= num /\ num <= FixnumMax
  THEN [ok |-> TRUE, fixnum |-> build_with(num)]
  ELSE [ok |-> FALSE, fixnum |-> <<>>]

\* Fixnum::get_num: the field as i64, shifted left to the top of the word and
\* back by an arithmetic shift.
get_num(f) ==
  ToI64((f.num * Pow2(I64Bits - FixnumBits)) % Pow2(I64Bits))
    \div Pow2(I64Bits - FixnumBits)

\* impl Neg for Fixnum
neg(f) == build_with(ToI64((-get_num(f)) % Pow2(I64Bits)))

\* build_with_checked on any i64, neg on any Fixnum.
FInit ==
  /\ npc = "start"
  /\ nout = <<>>
  /\ pin = <<>>
  /\ pow = <<>>
  /\ \/ /\ nop = "build_with_checked"
        /\ nin \in {<<n>> : n \in I64Min .. I64Max}
     \/ /\ nop = "neg"
        /\ nin \in {<<n>> : n \in FixnumMin .. FixnumMax}
  /\ PIdle /\ AIdle /\ CIdle /\ DIdle /\ QIdle /\ MIdle

\* build_with_checked(n), then get_num of the Fixnum.
BuildWithChecked ==
  /\ nop = "build_with_checked"
  /\ npc = "start"
  /\ npc' = "done"
  /\ nout' = [ok |-> build_with_checked(nin[1]).ok,
              num |-> IF build_with_checked(nin[1]).ok
                      THEN get_num(build_with_checked(nin[1]).fixnum)
                      ELSE 0]
  /\ UNCHANGED <<nop, nin, pin, pow, beside_num>>

\* The Fixnum of n negated, then its get_num.
Neg ==
  /\ nop = "neg"
  /\ npc = "start"
  /\ npc' = "done"
  /\ nout' = [ok |-> TRUE, num |-> get_num(neg(build_with_checked(nin[1]).fixnum))]
  /\ UNCHANGED <<nop, nin, pin, pow, beside_num>>

FNext ==
  \/ BuildWithChecked
  \/ Neg

SpecFixnum == FInit /\ [][FNext]_vars

\* C21: build_with_checked(n) succeeds exactly for n from -2^(FixnumBits - 1)
\* to 2^(FixnumBits - 1) - 1 and get_num gives n back; the negation of the
\* Fixnum of n is the Fixnum of -n.
C21_FixnumRange ==
  npc = "done" =>
    /\ nop = "build_with_checked" =>
         /\ nout.ok <=> (-Pow2(FixnumBits - 1) <= nin[1]
                           /\ nin[1] <= Pow2(FixnumBits - 1) - 1)
         /\ nout.ok => nout.num = nin[1]
    /\ nop = "neg" => nout.num = -nin[1]

(***************************************************************************)
(* The join of a disjunction out of tail position: push_jump_instrs, then  *)
(* pop_branch.                                                             *)
(***************************************************************************)

\* Most instructions of an arm when the join is reached.
MaxArmLen == 2

\* An arm of n instructions.
ArmOf(n) == [i \in 1 .. n |-> Ins("call", i)]

\* The frames of a BranchCodeStack: two or three arms.
BranchFrames ==
  UNION {[1 .. n -> {ArmOf(k) : k \in 0 .. MaxArmLen}] : n \in {2, 3}}

\* The stacks at a join: one or two frames.
BranchStacks == UNION {[1 .. n -> BranchFrames] : n \in {1, 2}}

JInit ==
  /\ \E stack \in BranchStacks, depth \in {1, 2}, ncbt \in BOOLEAN :
       /\ depth <= Len(stack)
       /\ clause = [c |-> PredicateClause(FALSE, 0, -1, FALSE, 0, <<>>),
                    non_counted_bt |-> ncbt]
       /\ citems = <<Item("BranchEnd", <<>>, depth, FALSE, 0)>>
       /\ cst = SeqState(<<>>, stack, FALSE, 1, 0, "")
  /\ cpc = "join"
  /\ cres = <<>>
  /\ PIdle /\ AIdle /\ NIdle /\ DIdle /\ QIdle /\ MIdle

\* compile_seq, ClauseItem::BranchEnd out of tail position; cres keeps what
\* pop_branch returned.
BranchJoin ==
  /\ cpc = "join"
  /\ cpc' = "joined"
  /\ cst' = branch_end(cst, Head(citems), clause.non_counted_bt)
  /\ cres' = pop_branch(push_jump_instrs(cst.stack, Head(citems).n), Head(citems).n,
                        Settings(FALSE, FALSE, clause.non_counted_bt)).code
  /\ citems' = Tail(citems)
  /\ UNCHANGED <<clause, beside_clause>>

JNext == BranchJoin

SpecJoin == JInit /\ [][JNext]_vars

\* C22: every jmp_by_call of the code pop_branch returns after
\* push_jump_instrs lands on the first position after that code: a jump at
\* the q-th instruction, counted from 1, has offset Len + 1 - q.
C22_JumpsLandAfterDisjunction ==
  cpc = "joined" =>
    \A q \in 1 .. Len(cres) :
      cres[q].op = "jmp_by_call" => q + cres[q].n = Len(cres) + 1

C22_Witness ==
  /\ cpc = "joined"
  /\ Cardinality({q \in 1 .. Len(cres) : cres[q].op = "jmp_by_call"}) = 4
  /\ Cardinality({q \in 1 .. Len(cres) : cres[q].op = "try_me_else"}) = 2
  /\ Len(cres) > 12

(***************************************************************************)
(* push_missing_vars at a join out of tail position.                       *)
(***************************************************************************)

\* The variables of the hits, and the register of each.
JoinVars == {1, 2}

\* The records: each variable has occurrences left or has none.
JoinRecords ==
  {<<VarRecord(a, 2, 1), VarRecord(b, 2, 2)>> : a, b \in {1, 2}}

\* The bits of a hit: one for each arm, one set at least.
HitBits(arms) == {bits \in [1 .. arms -> BOOLEAN] : \E b \in 1 .. arms : bits[b]}

\* The hits of a frame: none, one variable, or for two arms both variables
\* in either order.
FrameHits(arms) ==
  {<<>>}
  \cup {<<Hit(v, bits)>> : v \in JoinVars, bits \in HitBits(arms)}
  \cup (IF arms = 2
        THEN {<<Hit(v, b1), Hit(3 - v, b2)>> :
                v \in JoinVars, b1 \in HitBits(arms), b2 \in HitBits(arms)}
        ELSE {})

\* A frame of the code stack with the frame of the allocator for it.
JoinFrames ==
  UNION {{[code |-> [b \in 1 .. arms |-> ArmOf(1)], marker |-> BranchFrame(hits, arms)] :
            hits \in FrameHits(arms)} :
         arms \in {2, 3}}

MInit ==
  /\ \E fs \in UNION {[1 .. n -> JoinFrames] : n \in {1, 2}},
        depth \in {1, 2}, records \in JoinRecords :
       /\ depth <= Len(fs)
       /\ clause = [depth |-> depth]
       /\ cst = [stack |-> [f \in 1 .. Len(fs) |-> fs[f].code],
                 marker |-> [branch_stack |-> [f \in 1 .. Len(fs) |-> fs[f].marker],
                             records |-> records]]
  /\ citems = <<>>
  /\ cpc = "missing"
  /\ cres = <<>>
  /\ PIdle /\ AIdle /\ NIdle /\ DIdle /\ QIdle /\ MIdle

PushMissingVars ==
  /\ cpc = "missing"
  /\ cpc' = "pushed"
  /\ cres' = push_missing_vars(cst.stack, clause.depth, cst.marker)
  /\ UNCHANGED <<clause, citems, cst, beside_clause>>

MNext == PushMissingVars

SpecMissing == MInit /\ [][MNext]_vars

\* The frames push_missing_vars goes through.
Joined == (Len(cst.stack) - clause.depth + 1) .. Len(cst.stack)

\* What push_missing_vars appended to arm b of frame f.
Pushed(f, b) ==
  SubSeq(cres.stack[f][b], Len(cst.stack[f][b]) + 1, Len(cres.stack[f][b]))

\* put_variable for the variable v is among what was appended to the arm.
Written(f, b, v) ==
  \E i \in 1 .. Len(Pushed(f, b)) :
    Pushed(f, b)[i] = Ins("put_variable", cst.marker.records[v].allocation)

\* The hits of frame f when push_missing_vars reads them, with what the
\* frames above have propagated, of the variables that occur again.
LiveHits(f) ==
  {cres.marker.branch_stack[f].hits[i] : i \in 1 .. Len(cres.marker.branch_stack[f].hits)}
  \cap {h \in [v : JoinVars, bits : HitBits(Len(cst.stack[f]))] :
          cst.marker.records[h.v].running_count
            < cst.marker.records[h.v].num_occurrences}

\* C23 as stated: for every variable in the hits with occurrences left,
\* every arm of unset bit gets put_variable of its register, and the
\* variable is in the returned set and in both safety sets of the frame.
C23_EveryMissingArmWritten ==
  cpc = "pushed" =>
    \A f \in Joined : \A h \in LiveHits(f) :
      /\ \A b \in 1 .. Len(h.bits) : ~h.bits[b] => Written(f, b, h.v)
      /\ h.v \in cres.subsumed_hits
      /\ h.v \in cres.marker.branch_stack[f].shallow_safety
      /\ h.v \in cres.marker.branch_stack[f].deep_safety

\* C23 amended: for every variable in the hits with occurrences left, the
\* arms that get put_variable of its register are those of unset bit other
\* than the last arm of a frame under the innermost one; the variable is in
\* the returned set, and in both safety sets of the frame when an arm has
\* not hit it.
C23_MissingArmsWrittenButLastOuter ==
  cpc = "pushed" =>
    \A f \in Joined : \A h \in LiveHits(f) :
      /\ \A b \in 1 .. Len(h.bits) :
           Written(f, b, h.v)
             <=> (~h.bits[b] /\ ~(b = Len(h.bits) /\ f # Len(cst.stack)))
      /\ h.v \in cres.subsumed_hits
      /\ (\E b \in 1 .. Len(h.bits) : ~h.bits[b]) =>
           /\ h.v \in cres.marker.branch_stack[f].shallow_safety
           /\ h.v \in cres.marker.branch_stack[f].deep_safety

C23_Witness ==
  /\ cpc = "pushed"
  /\ clause.depth = 2
  /\ Len(cst.stack[1]) = 3
  /\ cst.marker.branch_stack[1].hits = <<Hit(1, <<TRUE, FALSE, FALSE>>)>>
  /\ \E i \in 1 .. Len(cst.marker.branch_stack[2].hits) :
       cst.marker.branch_stack[2].hits[i] = Hit(2, <<FALSE, TRUE>>)
  /\ cst.marker.records = <<VarRecord(1, 2, 1), VarRecord(1, 2, 2)>>
  /\ Written(1, 2, 1) /\ ~Written(1, 3, 1)
  /\ Written(2, 1, 2) /\ Written(1, 1, 2) /\ Written(1, 2, 2)
  /\ cres.subsumed_hits = {1, 2}

\* split_predicate has just returned the spans.
Split == dpc = "loop" /\ spans = split_predicate(pred.clauses)

\* The index of the first argument of the i-th clause, counted from 1, that
\* is not a variable.
InstOf(i) == pred.clauses[i].inst

\* C24: a span of more than one clause that split_predicate returns is a run
\* of clauses whose first argument that is not a variable is at the span's
\* instantiated_arg_index, and the clause before it and the clause after it
\* are not of that kind; a clause whose arguments are all variables is a
\* span of its own.
C24_SpansAreMaximalRuns ==
  Split =>
    /\ \A k \in 1 .. Len(spans) :
         spans[k].right - spans[k].left > 1 =>
           /\ \A i \in (spans[k].left + 1) .. spans[k].right :
                InstOf(i) = spans[k].instantiated_arg_index
           /\ spans[k].left > 0 =>
                InstOf(spans[k].left) # spans[k].instantiated_arg_index
           /\ spans[k].right < Len(pred.clauses) =>
                InstOf(spans[k].right + 1) # spans[k].instantiated_arg_index
    /\ \A i \in 1 .. Len(pred.clauses) :
         InstOf(i) = -1 =>
           \E k \in 1 .. Len(spans) : spans[k].left = i - 1 /\ spans[k].right = i

C24_Witness ==
  /\ Split
  /\ Len(pred.clauses) = 3
  /\ InstOf(1) = -1 /\ InstOf(2) = 1 /\ InstOf(3) = 1
  /\ spans = <<ClauseSpan(0, 1, 0), ClauseSpan(1, 3, 1)>>

\* C29: the spans split_predicate returns are not empty, the first starts at
\* 0, each starts where the one before it ends, and the last ends at the
\* number of clauses.
C29_SpansPartitionClauses ==
  Split =>
    /\ spans # <<>>
    /\ spans[1].left = 0
    /\ spans[Len(spans)].right = Len(pred.clauses)
    /\ \A k \in 1 .. Len(spans) : spans[k].left < spans[k].right
    /\ \A k \in 1 .. (Len(spans) - 1) : spans[k].right = spans[k + 1].left

C29_Witness ==
  /\ Split
  /\ Len(pred.clauses) = 3
  /\ InstOf(1) = 0 /\ InstOf(2) = 0 /\ InstOf(3) = 1
  /\ spans = <<ClauseSpan(0, 2, 0), ClauseSpan(2, 3, 1)>>

(***************************************************************************)
(* compare_pstr_prefixes when one string is exhausted.                     *)
(***************************************************************************)

\* The sequence of d ends at [] after characters that all begin the sequence
\* of e, which has a further character.
ExhaustedBefore(d, e) ==
  /\ Den(d).fin = "nil"
  /\ \A i \in 1 .. Len(Den(d).pre) : CharAt(d, i) = CharAt(e, i)
  /\ CharAt(e, Len(Den(d).pre) + 1) # 0

SInit ==
  \E t \in CmpTerms :
    \E u \in {x \in CmpTerms : Len(t.segs) + Len(x.segs) <= MaxTotalSegs} :
      /\ heap = HeapOf(t, u, TRUE, 0)
      /\ desc1 = t
      /\ desc2 = u
      /\ op = "compare"
      /\ i1 = IterNew(heap, StartOf(t, 0))
      /\ i2 = IterNew(heap, StartOf(u, Len(TermCells(t, 0))))
      /\ r1 = NoStep
      /\ r2 = NoStep
      /\ pc = "start"
      /\ result = NoResult
      /\ items = <<>>
      /\ AIdle /\ NIdle /\ CIdle /\ DIdle /\ QIdle /\ MIdle

\* compare_pstr_prefixes(&mut b, &mut a) after compare_pstr_prefixes(&mut a,
\* &mut b) has returned
CmpSwap ==
  /\ op = "compare"
  /\ pc = "done"
  /\ op' = "compare_swapped"
  /\ items' = <<result>>
  /\ i1' = IterNew(heap, StartOf(desc2, Len(TermCells(desc1, 0))))
  /\ i2' = IterNew(heap, StartOf(desc1, 0))
  /\ r1' = NoStep
  /\ r2' = NoStep
  /\ pc' = "start"
  /\ result' = NoResult
  /\ UNCHANGED <<heap, desc1, desc2, beside_pstr>>

SNext ==
  \/ CmpStart
  \/ CmpCharChar
  \/ CmpCharSeg
  \/ CmpSegChar
  \/ CmpSegSeg
  \/ CmpBreak
  \/ CmpFinish
  \/ CmpSwap

SpecSwap == SInit /\ [][SNext]_vars

\* Ordering::reverse
reverse(o) ==
  CASE o = "Less" -> "Greater" [] o = "Greater" -> "Less" [] OTHER -> o

\* C28: if the comparison of fresh iterators of a and b returns Ordered(o),
\* the comparison of fresh iterators of b and a returns Ordered(reverse of
\* o), and FirstIterContinuable on (a, b) corresponds to
\* SecondIterContinuable on (b, a).
C28_Antisymmetric ==
  (op = "compare_swapped" /\ pc = "done") =>
     /\ items[1].kind = "Ordered" => result = Ordered(reverse(items[1].ord))
     /\ items[1].kind = "FirstIterContinuable" =>
          result.kind = "SecondIterContinuable"
     /\ result.kind = "SecondIterContinuable" =>
          items[1].kind = "FirstIterContinuable"

(***************************************************************************)
(* The Interm slots of the evaluator's operand stack.                      *)
(***************************************************************************)

\* The positions of the operand stack that hold an Interm slot.
IntermAt(stack) == {i \in DOMAIN stack : stack[i].t = "Interm"}

\* The Interm slots of the stack increase strictly from bottom to top and lie
\* below the slot counter.
SlotsOrdered ==
  /\ \A i, j \in IntermAt(interm) : i < j => interm[i].n < interm[j].n
  /\ \A i \in IntermAt(interm) : interm[i].n < interm_c

\* An operator has just been compiled to an instruction.
OpStep == Popped("Clause") /\ Len(code') = Len(code) + 1

\* The operands still pending below the inputs of the instruction just
\* emitted.
PendingBelow == SubSeq(interm', 1, Len(interm') - 1)

\* C27: during any run of eval the Interm slots on the operand stack are
\* pairwise distinct, strictly increasing from bottom to top and all below
\* the slot counter, and no emitted instruction writes a slot that holds a
\* pending operand other than its own inputs.
C27_IntermSlotsOrdered ==
  /\ [](apc \in {"start", "iter"} => SlotsOrdered)
  /\ [][OpStep =>
          /\ Top(interm') = Interm(Top(code').t)
          /\ \A i \in IntermAt(PendingBelow) : PendingBelow[i].n # Top(code').t]_vars

C27_Witness ==
  /\ apc = "iter"
  /\ code # <<>>
  /\ \E i, j \in IntermAt(interm) : i < j
  /\ SlotsOrdered

(***************************************************************************)
(* compile_inlined on a type test: the instruction chosen from the heap    *)
(* cell of the argument.                                                   *)
(***************************************************************************)

\* The argument's heap cell: its tag, the arity of an Atom cell, the arena
\* header tag of a Cons cell, and for a variable whether its VarPtr is
\* anonymous and the register mark_non_callable gives it.
ArgCell(tag, arity, arena, anon, reg) ==
  [tag |-> tag, arity |-> arity, arena |-> arena, anon |-> anon, reg |-> reg]

\* Number::try_from(HeapCellValue): the kind of Number, "" for Err(()).
number_try_from(term) ==
  CASE term.tag = "Cons" /\ term.arena = "F64" -> "Float"
    [] term.tag = "Cons" /\ term.arena = "Integer" -> "Integer"
    [] term.tag = "Cons" /\ term.arena = "Rational" -> "Rational"
    [] term.tag = "F64" -> "Float"
    [] term.tag = "Fixnum" -> "Fixnum"
    [] OTHER -> ""

succeed_if(b) == IF b THEN Ins("$succeed", 0) ELSE Ins("$fail", 0)

\* The AttrVar | Var arm of a type test: the answer for an anonymous
\* variable, the parametric instruction on the marked register otherwise.
var_arm(name, term, anon_succeeds) ==
  IF term.anon THEN succeed_if(anon_succeeds) ELSE Ins(name, term.reg)

\* compile_inlined: call_instr of the type tests. No cell of ArgCells reaches
\* the last arm of IsAtomic, which asks Literal::try_from.
type_test_instr(ct, term) ==
  LET is_var == term.tag \in {"AttrVar", "Var"}
  IN CASE ct = "atom" ->
            CASE term.tag = "Atom" -> succeed_if(term.arity = 0)
              [] term.tag = "Char" -> Ins("$succeed", 0)
              [] is_var -> var_arm("atom", term, FALSE)
              [] OTHER -> Ins("$fail", 0)
       [] ct = "atomic" ->
            CASE is_var -> var_arm("atomic", term, FALSE)
              [] term.tag \in {"Fixnum", "Char", "F64"} -> Ins("$succeed", 0)
              [] term.tag = "Cons" -> succeed_if(term.arena \in {"Integer", "Rational"})
              [] term.tag = "Atom" -> succeed_if(term.arity = 0)
              [] term.tag \in {"Lis", "Str", "PStrLoc", "CStr"} -> Ins("$fail", 0)
              [] OTHER -> Ins("$fail", 0)
       [] ct = "compound" ->
            CASE term.tag = "Atom" -> succeed_if(term.arity > 0)
              [] term.tag \in {"Lis", "Str", "PStrLoc", "CStr"} -> Ins("$succeed", 0)
              [] is_var -> var_arm("compound", term, FALSE)
              [] OTHER -> Ins("$fail", 0)
       [] ct = "rational" ->
            CASE term.tag = "Cons" -> succeed_if(term.arena \in {"Integer", "Rational"})
              [] term.tag = "Fixnum" -> Ins("$succeed", 0)
              [] is_var -> var_arm("rational", term, FALSE)
              [] OTHER -> Ins("$fail", 0)
       [] ct = "float" ->
            CASE term.tag = "F64" -> Ins("$succeed", 0)
              [] is_var -> var_arm("float", term, FALSE)
              [] OTHER -> Ins("$fail", 0)
       [] ct = "number" ->
            CASE is_var -> var_arm("number", term, FALSE)
              [] OTHER -> succeed_if(number_try_from(term) # "")
       [] ct = "nonvar" ->
            CASE is_var -> var_arm("nonvar", term, FALSE)
              [] OTHER -> Ins("$succeed", 0)
       [] ct = "integer" ->
            CASE is_var -> var_arm("integer", term, FALSE)
              [] OTHER -> succeed_if(number_try_from(term) \in {"Integer", "Fixnum"})
       [] ct = "var" ->
            CASE is_var -> var_arm("var", term, TRUE)
              [] OTHER -> Ins("$fail", 0)

\* compile_inlined for a type test: mark_non_callable for a named variable,
\* then add_call(code, call_instr, CallPolicy::Counted).
compile_type_test(st, ct, term, allocates) ==
  add_call(IF term.tag \in {"AttrVar", "Var"} /\ ~term.anon THEN mark(st, term.reg)
           ELSE st,
           type_test_instr(ct, term), "Counted", allocates)

TypeTests ==
  {"atom", "atomic", "compound", "rational", "float", "number", "nonvar",
   "integer", "var"}

\* The cells an argument of a goal is read as: the tags compile_inlined and
\* Number::try_from tell apart.
ArgCells ==
  {ArgCell("Atom", n, "", FALSE, 0) : n \in {0, 2}}
  \cup {ArgCell(t, 0, "", FALSE, 0) :
          t \in {"Char", "Fixnum", "F64", "Lis", "Str", "PStrLoc", "CStr"}}
  \cup {ArgCell("Cons", 0, a, FALSE, 0) : a \in {"Integer", "Rational", "F64"}}
  \cup {ArgCell(t, 0, "", TRUE, 0) : t \in {"AttrVar", "Var"}}
  \cup {ArgCell(t, 0, "", FALSE, r) : t \in {"AttrVar", "Var"}, r \in 1 .. 2}

TInit ==
  /\ \E ct \in TypeTests, term \in ArgCells, tail, allocates \in BOOLEAN :
       /\ clause = [ct |-> ct, term |-> term, allocates |-> allocates]
       /\ cst = SeqState(<<>>, <<>>, tail, 1, 0, "")
  /\ cpc = "inline"
  /\ citems = <<>>
  /\ cres = <<>>
  /\ PIdle /\ AIdle /\ NIdle /\ DIdle /\ QIdle /\ MIdle

\* compile_inlined(ct, terms, term_loc, context, code); cres keeps the code.
CompileInlined ==
  /\ cpc = "inline"
  /\ cpc' = "inlined"
  /\ cst' = compile_type_test(cst, clause.ct, clause.term, clause.allocates)
  /\ cres' = cst'.code
  /\ UNCHANGED <<clause, citems, beside_clause>>

TNext == CompileInlined

SpecInline == TInit /\ [][TNext]_vars

IsVariable(term) == term.tag \in {"AttrVar", "Var"}

IsNumberCell(term) ==
  \/ term.tag \in {"Fixnum", "F64"}
  \/ term.tag = "Cons" /\ term.arena \in {"Integer", "Rational", "F64"}

IsAtomCell(term) == term.tag = "Char" \/ (term.tag = "Atom" /\ term.arity = 0)

\* Whether the type test is true of the term the cell stands for.
Holds(ct, term) ==
  CASE ct = "var" -> IsVariable(term)
    [] ct = "nonvar" -> ~IsVariable(term)
    [] ct = "atom" -> IsAtomCell(term)
    [] ct = "number" -> IsNumberCell(term)
    [] ct = "integer" ->
         term.tag = "Fixnum" \/ (term.tag = "Cons" /\ term.arena = "Integer")
    [] ct = "rational" ->
         \/ term.tag = "Fixnum"
         \/ term.tag = "Cons" /\ term.arena \in {"Integer", "Rational"}
    [] ct = "float" ->
         term.tag = "F64" \/ (term.tag = "Cons" /\ term.arena = "F64")
    [] ct = "atomic" -> IsAtomCell(term) \/ IsNumberCell(term)
    [] ct = "compound" ->
         \/ term.tag \in {"Lis", "Str", "PStrLoc", "CStr"}
         \/ term.tag = "Atom" /\ term.arity > 0

NamedVariable(term) == IsVariable(term) /\ ~term.anon

\* The test instruction of the code compile_inlined left.
TestInstr == cres[Len(cres)]

Local(n) == [kind |-> "Local", n |-> n]

\* CodePtr::VerifyAttrInterrupt
VerifyAttrInterrupt(loc) == [kind |-> "VerifyAttrInterrupt", n |-> loc]

\* self.p.clone() + 1: a Local pointer advances.
code_ptr_add(p, n) == IF p.kind = "Local" THEN Local(p.n + n) ELSE p

\* AttrVarInitializer
AttrVarInitializer(bs, cp_stack, loc) ==
  [bindings |-> bs, cp_stack |-> cp_stack, verify_attrs_loc |-> loc]

\* MachineState: p and attr_var_init.
MachineState(p, init) == [p |-> p, attr_var_init |-> init]

\* AttrVarInitializer::new
attr_var_init_new(p) == AttrVarInitializer(<<>>, <<>>, p)

\* AttrVarInitializer::reset
reset(init) == [init EXCEPT !.cp_stack = <<>>, !.bindings = <<>>]

\* push_attr_var_binding pushing the return pointer at every call.
push_attr_var_binding_every_call(m, h, addr) ==
  [p |-> VerifyAttrInterrupt(m.attr_var_init.verify_attrs_loc),
   attr_var_init |->
     [m.attr_var_init EXCEPT !.cp_stack = Append(@, code_ptr_add(m.p, 1)),
                             !.bindings = Append(@, <<h, addr>>)]]

\* MachineState::push_attr_var_binding
push_attr_var_binding(m, h, addr) ==
  LET m1 == IF m.attr_var_init.bindings = <<>>
            THEN [p |-> VerifyAttrInterrupt(m.attr_var_init.verify_attrs_loc),
                  attr_var_init |->
                    [m.attr_var_init EXCEPT
                       !.cp_stack = Append(@, code_ptr_add(m.p, 1))]]
            ELSE m
  IN [m1 EXCEPT !.attr_var_init.bindings = Append(@, <<h, addr>>)]

\* Most bindings pushed between two resets.
MaxBindings == 3

\* The instructions of the running code.
MaxCode == 3

\* The location of verify_attributes in the code.
VerifyAttrsLoc == 7

\* The heap indices of the attributed variables and the values bound.
BoundVars == 0 .. 1

BoundValues == {"a", "b"}

HInit ==
  /\ machine = MachineState(Local(0), attr_var_init_new(VerifyAttrsLoc))
  /\ mpc = "run"
  /\ calls = <<>>
  /\ redirects = 0
  /\ PIdle /\ AIdle /\ NIdle /\ CIdle /\ DIdle /\ QIdle

Running == mpc = "run"

\* An attributed variable is bound: self.push_attr_var_binding(h, addr).
PushAttrVarBinding ==
  /\ Running
  /\ Len(calls) < MaxBindings
  /\ machine.p.kind = "Local" => machine.p.n < MaxCode
  /\ \E h \in BoundVars, addr \in BoundValues :
       /\ machine' = push_attr_var_binding(machine, h, addr)
       /\ calls' = Append(calls, <<h, addr>>)
  /\ redirects' = redirects
                  + (IF machine'.attr_var_init.cp_stack # machine.attr_var_init.cp_stack
                        \/ machine'.p # machine.p
                     THEN 1 ELSE 0)
  /\ UNCHANGED <<mpc, beside_machine>>

\* self.attr_var_init.reset()
Reset ==
  /\ Running
  /\ machine' = [machine EXCEPT !.attr_var_init = reset(@)]
  /\ calls' = <<>>
  /\ redirects' = 0
  /\ UNCHANGED <<mpc, beside_machine>>

\* self.p = self.attr_var_init.pop_code_ptr(); the unwrap fails on an empty
\* cp_stack.
PopCodePtr ==
  /\ Running
  /\ IF machine.attr_var_init.cp_stack = <<>>
     THEN mpc' = "panic" /\ UNCHANGED machine
     ELSE /\ machine' =
               [machine EXCEPT
                  !.p = machine.attr_var_init.cp_stack[Len(machine.attr_var_init.cp_stack)],
                  !.attr_var_init.cp_stack = SubSeq(@, 1, Len(@) - 1)]
          /\ UNCHANGED mpc
  /\ UNCHANGED <<calls, redirects, beside_machine>>

\* The machine runs an instruction of the code: p moves on.
Advance ==
  /\ Running
  /\ machine.p.kind = "Local"
  /\ machine.p.n < MaxCode
  /\ machine' = [machine EXCEPT !.p = code_ptr_add(@, 1)]
  /\ UNCHANGED <<mpc, calls, redirects, beside_machine>>

HNext ==
  \/ PushAttrVarBinding
  \/ Reset
  \/ PopCodePtr
  \/ Advance

SpecAttr == HInit /\ [][HNext]_vars

\* A call of push_attr_var_binding has just been made.
PushStep == Len(calls') = Len(calls) + 1

\* C30: over the calls of push_attr_var_binding since the last reset, the
\* return pointer p + 1 is pushed on cp_stack and p is redirected to
\* VerifyAttrInterrupt exactly once, by the first call, made while bindings
\* is empty; every later call only appends to bindings, and bindings holds
\* the calls in call order.
C30_RedirectedOncePerReset ==
  /\ [](Running =>
          /\ machine.attr_var_init.bindings = calls
          /\ redirects = (IF calls = <<>> THEN 0 ELSE 1))
  /\ [][PushStep =>
          IF machine.attr_var_init.bindings = <<>>
          THEN /\ machine'.attr_var_init.cp_stack =
                    Append(machine.attr_var_init.cp_stack, code_ptr_add(machine.p, 1))
               /\ machine'.p = VerifyAttrInterrupt(machine.attr_var_init.verify_attrs_loc)
          ELSE /\ machine'.attr_var_init.cp_stack = machine.attr_var_init.cp_stack
               /\ machine'.p = machine.p]_vars

C30_Witness ==
  /\ Running
  /\ Len(calls) >= 2
  /\ calls[1] # calls[2]
  /\ machine.attr_var_init.bindings = calls
  /\ redirects = 1
  /\ machine.attr_var_init.cp_stack = <<Local(2)>>
  /\ machine.p = VerifyAttrInterrupt(VerifyAttrsLoc)

====
